---- MODULE Spec2Model ----
(***************************************************************************)
(* A model of destructify: the stream adapters (io.BytesIO as the raw      *)
(* stream, Substream, BitStream), the field descriptors (BytesField,       *)
(* IntegerField, BitField) and the Structure driver (from_stream and       *)
(* to_stream), with the properties of the specification stated over them.  *)
(***************************************************************************)
EXTENDS Integers, Sequences, FiniteSets, TLC

(***************************************************************************)
(* Bounds of the model.                                                    *)
(***************************************************************************)
MaxByte == 2          \* input bytes are drawn from 0..MaxByte
MaxInput == 3         \* longest input byte string of a parse
MaxValueLen == 2      \* longest bytes value assigned to an instance attribute
MaxBits == 4          \* longest BitField of the bit round trip
MaxSubLen == 2        \* longest bounded Substream
MaxSeek == 2          \* largest |offset| handed to a seek
MaxRawLen == 3        \* raw stream of the adapter state machines never grows past this

(***************************************************************************)
(* Python values and helpers.                                              *)
(***************************************************************************)
None == -1000         \* stands for Python's None where an int is expected

Min(a, b) == IF a < b THEN a ELSE b
Max(a, b) == IF a > b THEN a ELSE b

\* s[:n], s[n:] and s[a:b] of Python for 0 <= n, 0 <= a
Take(s, n) == SubSeq(s, 1, Min(n, Len(s)))
Drop(s, n) == SubSeq(s, n + 1, Len(s))
Slice(s, a, b) == SubSeq(s, a + 1, Min(b, Len(s)))
\* s[:-n] and s[-n:] of Python for n > 0
DropLast(s, n) == SubSeq(s, 1, Len(s) - n)
TakeLast(s, n) == SubSeq(s, Max(1, Len(s) - n + 1), Len(s))
EndsWith(s, t) == Len(t) <= Len(s) /\ SubSeq(s, Len(s) - Len(t) + 1, Len(s)) = t
Zeros(n) == [i \in 1..n |-> 0]

RECURSIVE Pow2(_)
Pow2(n) == IF n <= 0 THEN 1 ELSE 2 * Pow2(n - 1)

RECURSIVE SeqsUpTo(_, _)
SeqsUpTo(S, n) ==
  IF n = 0 THEN {<<>>}
  ELSE LET shorter == SeqsUpTo(S, n - 1)
       IN  shorter \cup {Append(s, x) : s \in shorter, x \in S}

(***************************************************************************)
(* io.BytesIO, the raw stream handed to the library.                       *)
(***************************************************************************)
SEEK_SET == 0
SEEK_CUR == 1
SEEK_END == 2

\* read(size): the bytes from the cursor, all of them when size < 0
BytesIO_read(raw, pos, size) ==
  IF size < 0 THEN Drop(raw, pos) ELSE Slice(raw, pos, pos + size)

\* write(b): overwrites at the cursor, zero-filling a gap after the end;
\* writing nothing changes nothing
BytesIO_write(raw, pos, b) ==
  IF Len(b) = 0 THEN raw
  ELSE LET base == IF pos > Len(raw) THEN raw \o Zeros(pos - Len(raw)) ELSE raw
       IN  Take(base, pos) \o b \o Drop(base, pos + Len(b))

\* seek(offset, whence): the new cursor; a negative absolute target raises
\* ValueError, negative relative targets stop at 0
BytesIO_seek(raw, pos, off, whence) ==
  IF whence = SEEK_SET
  THEN IF off < 0 THEN [err |-> "ValueError", pos |-> pos]
       ELSE [err |-> "ok", pos |-> off]
  ELSE IF whence = SEEK_CUR
  THEN [err |-> "ok", pos |-> Max(0, pos + off)]
  ELSE [err |-> "ok", pos |-> Max(0, Len(raw) + off)]

(***************************************************************************)
(* Bit lists: the MSB-first conversions of BitStream.                      *)
(***************************************************************************)
\* [value >> i & 1 for i in range(n - 1, -1, -1)]
IntToBits(v, n) == [i \in 1..n |-> (v \div Pow2(n - i)) % 2]

\* sum(bits[i] << (len(bits) - i - 1))
RECURSIVE BitsToInt(_)
BitsToInt(b) ==
  IF Len(b) = 0 THEN 0 ELSE 2 * BitsToInt(SubSeq(b, 1, Len(b) - 1)) + b[Len(b)]

RECURSIVE Pow256(_)
Pow256(n) == IF n <= 0 THEN 1 ELSE 256 * Pow256(n - 1)

\* number.to_bytes(count, 'big') for a number that fits
IntToBytesBig(number, count) ==
  [k \in 1..count |-> (number \div Pow256(count - k)) % 256]

\* int.from_bytes(b, 'big')
RECURSIVE IntFromBytesBig(_)
IntFromBytesBig(b) ==
  IF Len(b) = 0 THEN 0
  ELSE 256 * IntFromBytesBig(SubSeq(b, 1, Len(b) - 1)) + b[Len(b)]

(***************************************************************************)
(* BitStream: a stream state is [raw, pos, bits], the raw BytesIO content  *)
(* and cursor and the list _bits_remaining (empty for None or []).  Every  *)
(* operation yields [s, n, data, err]: the state after it, the integer or  *)
(* bytes it returns and "ok" or the exception it raises.                   *)
(***************************************************************************)
Res(s, n, data, err) == [s |-> s, n |-> n, data |-> data, err |-> err]

BitStream_init(raw, pos) == [raw |-> raw, pos |-> pos, bits |-> <<>>]

\* _check_aligned that never raises
BitStream_check_aligned_skipped(s) == "ok"

BitStream_check_aligned(s) ==
  IF Len(s.bits) # 0 THEN "MisalignedFieldError" ELSE "ok"

BitStream_tell(s) == Res(s, s.pos, <<>>, "ok")

BitStream_flush(s) ==
  LET e == BitStream_check_aligned(s)
  IN  Res(s, 0, <<>>, e)

BitStream_read(s, size) ==
  LET e == BitStream_check_aligned(s)
      d == BytesIO_read(s.raw, s.pos, size)
  IN  IF e # "ok" THEN Res(s, 0, <<>>, e)
      ELSE Res([s EXCEPT !.pos = @ + Len(d)], Len(d), d, "ok")

BitStream_write(s, b) ==
  LET e == BitStream_check_aligned(s)
  IN  IF e # "ok" THEN Res(s, 0, <<>>, e)
      ELSE Res([s EXCEPT !.raw = BytesIO_write(s.raw, s.pos, b), !.pos = @ + Len(b)],
               Len(b), <<>>, "ok")

BitStream_seek(s, off, whence) ==
  LET e == BitStream_check_aligned(s)
      r == BytesIO_seek(s.raw, s.pos, off, whence)
  IN  IF e # "ok" THEN Res(s, 0, <<>>, e)
      ELSE IF r.err # "ok" THEN Res(s, 0, <<>>, r.err)
      ELSE Res([s EXCEPT !.pos = r.pos], r.pos, <<>>, "ok")

BitStream_discard_bits(s) == Res([s EXCEPT !.bits = <<>>], 0, <<>>, "ok")

BitStream_write_bits_raw(s, bits) ==
  IF Len(bits) % 8 # 0 THEN Res(s, 0, <<>>, "ValueError")
  ELSE IF Len(bits) = 0 THEN Res(s, 0, <<>>, "ok")
  ELSE LET b == IntToBytesBig(BitsToInt(bits), Len(bits) \div 8)
       IN  Res([s EXCEPT !.raw = BytesIO_write(s.raw, s.pos, b), !.pos = @ + Len(b)],
               Len(b), <<>>, "ok")

\* finalize that puts the padding in front of the pending bits
BitStream_finalize_padded_in_front(s) ==
  IF Len(s.bits) = 0 THEN Res(s, 0, <<>>, "ok")
  ELSE LET padded == Zeros((8 - (Len(s.bits) % 8)) % 8) \o s.bits
           w == BitStream_write_bits_raw([s EXCEPT !.bits = padded], padded)
       IN  IF w.err # "ok" THEN w
           ELSE Res([w.s EXCEPT !.bits = <<>>], w.n, <<>>, "ok")

BitStream_finalize(s) ==
  IF Len(s.bits) = 0 THEN Res(s, 0, <<>>, "ok")
  ELSE LET padded == s.bits \o Zeros((8 - (Len(s.bits) % 8)) % 8)
           w == BitStream_write_bits_raw([s EXCEPT !.bits = padded], padded)
       IN  IF w.err # "ok" THEN w
           ELSE Res([w.s EXCEPT !.bits = <<>>], w.n, <<>>, "ok")

\* the loop of read_bits: result is the list of bits taken so far, count the
\* number of raw.read(1) calls made
RECURSIVE BitStream_read_bits_loop(_, _, _, _)
BitStream_read_bits_loop(s, result, count, bit_count) ==
  IF Len(result) >= bit_count THEN Res(s, count, result, "ok")
  ELSE IF Len(s.bits) = 0
  THEN LET read == BytesIO_read(s.raw, s.pos, 1)
       IN  IF Len(read) = 0 THEN Res(s, count + 1, result, "StreamExhaustedError")
           ELSE BitStream_read_bits_loop(
                  [s EXCEPT !.pos = @ + 1, !.bits = IntToBits(read[1], 8)],
                  result, count + 1, bit_count)
  ELSE LET rem_size == bit_count - Len(result)
       IN  BitStream_read_bits_loop([s EXCEPT !.bits = Drop(s.bits, rem_size)],
                                    result \o Take(s.bits, rem_size), count, bit_count)

\* read_bits(bit_count): data is the integer read, n the bytes read from raw
BitStream_read_bits(s, bit_count) ==
  LET r == BitStream_read_bits_loop(s, <<>>, 0, bit_count)
  IN  [s |-> r.s, n |-> r.n, value |-> BitsToInt(r.data), data |-> <<>>, err |-> r.err]

\* write_bits that forgets the bits the previous call left pending
BitStream_write_bits_unbuffered(s, value, bit_count) ==
  LET all == IntToBits(value, bit_count)
      split == (Len(all) \div 8) * 8
  IN  BitStream_write_bits_raw([s EXCEPT !.bits = Drop(all, split)], Take(all, split))

\* write_bits(value, bit_count): whole bytes are written, the rest stays pending
BitStream_write_bits(s, value, bit_count) ==
  LET all == s.bits \o IntToBits(value, bit_count)
      split == (Len(all) \div 8) * 8
  IN  BitStream_write_bits_raw([s EXCEPT !.bits = Drop(all, split)], Take(all, split))

(***************************************************************************)
(* Substream: a view [start, length, position, tellable] over a raw stream *)
(* r = [raw, pos, seekable]; a raw stream that is not seekable raises on   *)
(* tell and on seek (length None: no upper bound).                         *)
(***************************************************************************)
SRes(sub, r, n, data, err) == [sub |-> sub, r |-> r, n |-> n, data |-> data, err |-> err]

Raw_seek(r, off, whence) ==
  IF ~r.seekable THEN [r |-> r, err |-> "OSError"]
  ELSE LET k == BytesIO_seek(r.raw, r.pos, off, whence)
       IN  IF k.err # "ok" THEN [r |-> r, err |-> k.err]
           ELSE [r |-> [r EXCEPT !.pos = k.pos], err |-> "ok"]

\* Substream(raw, start, length=length)
Substream_init(r, start, length) ==
  IF ~r.seekable
  THEN SRes([start |-> IF start = None THEN 0 ELSE start, length |-> length,
             position |-> 0, tellable |-> FALSE], r, 0, <<>>, "ok")
  ELSE LET st == IF start = None THEN r.pos ELSE start
           p == IF start = None THEN 0 ELSE r.pos - start
           k == Raw_seek(r, st + Max(0, p), SEEK_SET)
       IN  SRes([start |-> st, length |-> length, position |-> Max(0, p),
                 tellable |-> TRUE], k.r, 0, <<>>, "ok")

\* _check_bounds without the clamp at the end of the view
Substream_check_bounds_lower_only(sub, r) ==
  IF sub.position < 0
  THEN LET k == Raw_seek(r, sub.start, SEEK_SET)
       IN  SRes([sub EXCEPT !.position = 0], k.r, 0, <<>>, k.err)
  ELSE SRes(sub, r, 0, <<>>, "ok")

Substream_check_bounds(sub, r) ==
  IF sub.position < 0
  THEN LET k == Raw_seek(r, sub.start, SEEK_SET)
       IN  SRes([sub EXCEPT !.position = 0], k.r, 0, <<>>, k.err)
  ELSE IF sub.length # None /\ sub.position > sub.length
  THEN LET k == Raw_seek(r, sub.start + sub.length, SEEK_SET)
       IN  SRes([sub EXCEPT !.position = sub.length], k.r, 0, <<>>, k.err)
  ELSE SRes(sub, r, 0, <<>>, "ok")

\* _update_position_from_raw that trusts the position the Substream kept
Substream_update_position_from_raw_kept(sub, r) == SRes(sub, r, 0, <<>>, "ok")

Substream_update_position_from_raw(sub, r) ==
  IF sub.tellable
  THEN Substream_check_bounds([sub EXCEPT !.position = r.pos - sub.start], r)
  ELSE SRes(sub, r, 0, <<>>, "ok")

Substream_update_position(sub, r) ==
  LET u == Substream_update_position_from_raw(sub, r)
  IN  IF u.err # "ok" THEN u ELSE Substream_check_bounds(u.sub, u.r)



\* _cap_amount_of_bytes that hands the requested size through
Substream_cap_amount_of_bytes_uncapped(sub, size) == size

Substream_cap_amount_of_bytes(sub, size) ==
  IF sub.length = None THEN size
  ELSE LET max_to_read == sub.length - sub.position
       IN  IF size < 0 THEN max_to_read ELSE Min(max_to_read, size)

Substream_read(sub, r, size) ==
  LET u == Substream_update_position(sub, r)
      d == BytesIO_read(u.r.raw, u.r.pos, Substream_cap_amount_of_bytes(u.sub, size))
  IN  IF u.err # "ok" THEN u
      ELSE SRes([u.sub EXCEPT !.position = @ + Len(d)],
                [u.r EXCEPT !.pos = @ + Len(d)], Len(d), d, "ok")

Substream_tell(sub, r) ==
  LET u == Substream_update_position(sub, r)
  IN  IF u.err # "ok" THEN u ELSE SRes(u.sub, u.r, u.sub.position, <<>>, "ok")

Substream_write(sub, r, b) ==
  LET u == Substream_update_position(sub, r)
      length == Substream_cap_amount_of_bytes(u.sub, Len(b))
  IN  IF u.err # "ok" THEN u
      ELSE IF length < Len(b) THEN SRes(u.sub, u.r, 0, <<>>, "IOError")
      ELSE SRes([u.sub EXCEPT !.position = @ + Len(b)],
                [u.r EXCEPT !.raw = BytesIO_write(u.r.raw, u.r.pos, b), !.pos = @ + Len(b)],
                Len(b), <<>>, "ok")

\* seek that takes every offset as one from the start
Substream_seek_target_from_start(sub, r, offset, whence) ==
  IF offset < 0 THEN SRes(sub, r, 0, <<>>, "ValueError")
  ELSE SRes([sub EXCEPT !.position = offset], r, 0, <<>>, "ok")

\* the part of seek that depends on whence: the position before the final
\* _check_bounds
Substream_seek_target(sub, r, offset, whence) ==
  IF whence = SEEK_SET
  THEN IF offset < 0 THEN SRes(sub, r, 0, <<>>, "ValueError")
       ELSE SRes([sub EXCEPT !.position = offset], r, 0, <<>>, "ok")
  ELSE IF whence = SEEK_CUR
  THEN LET u == Substream_update_position_from_raw(sub, r)
       IN  IF u.err # "ok" THEN u
           ELSE SRes([u.sub EXCEPT !.position = Max(0, @ + offset)], u.r, 0, <<>>, "ok")
  ELSE IF whence = SEEK_END
  THEN IF sub.length = None
       THEN LET k == Raw_seek(r, offset, SEEK_END)
            IN  IF k.err # "ok" THEN SRes(sub, r, 0, <<>>, k.err)
                ELSE Substream_update_position_from_raw(sub, k.r)
       ELSE SRes([sub EXCEPT !.position = Max(0, sub.length + offset)], r, 0, <<>>, "ok")
  ELSE SRes(sub, r, 0, <<>>, "ValueError")

Substream_seek(sub, r, offset, whence) ==
  IF ~r.seekable THEN SRes(sub, r, 0, <<>>, "OSError")
  ELSE LET t == Substream_seek_target(sub, r, offset, whence)
           c == Substream_check_bounds(t.sub, t.r)
           k == Raw_seek(c.r, c.sub.start + c.sub.position, SEEK_SET)
       IN  IF t.err # "ok" THEN t
           ELSE IF c.err # "ok" THEN c
           ELSE SRes(c.sub, k.r, c.sub.position, <<>>, k.err)

(***************************************************************************)
(* CaptureStream: c = [r, cache, cpos], the raw stream r and the BytesIO   *)
(* _cache with its cursor cpos, in which everything read and written       *)
(* through the CaptureStream is kept at the offset it has in the raw       *)
(* stream.                                                                 *)
(***************************************************************************)
CRes(c, n, data, err) == [c |-> c, n |-> n, data |-> data, err |-> err]

\* CaptureStream(raw): cache_reset() starts the cache at raw.tell(), at 0 when
\* the raw stream cannot tell
CaptureStream_cache_reset(r) ==
  LET cache_offset == IF r.seekable THEN r.pos ELSE 0
  IN  [r |-> r, cache |-> <<>>,
       cpos |-> BytesIO_seek(<<>>, 0, cache_offset, SEEK_SET).pos]

\* _read that does not keep what it read
CaptureStream_read_unkept(c, size) ==
  LET result == BytesIO_read(c.r.raw, c.r.pos, size)
  IN  CRes([c EXCEPT !.r.pos = @ + Len(result)], Len(result), result, "ok")

CaptureStream_read(c, size) ==
  LET result == BytesIO_read(c.r.raw, c.r.pos, size)
  IN  CRes([c EXCEPT !.r.pos = @ + Len(result),
                     !.cache = BytesIO_write(c.cache, c.cpos, result),
                     !.cpos = @ + Len(result)],
           Len(result), result, "ok")

CaptureStream_seek(c, offset, whence) ==
  LET k == Raw_seek(c.r, offset, whence)
  IN  IF k.err # "ok" THEN CRes(c, 0, <<>>, k.err)
      ELSE CRes([c EXCEPT !.r = k.r,
                          !.cpos = BytesIO_seek(c.cache, c.cpos, k.r.pos, SEEK_SET).pos],
                k.r.pos, <<>>, "ok")

CaptureStream_write(c, b) ==
  LET result == Len(b)
  IN  CRes([c EXCEPT !.r.raw = BytesIO_write(c.r.raw, c.r.pos, b),
                     !.r.pos = @ + result,
                     !.cache = BytesIO_write(c.cache, c.cpos, Take(b, result)),
                     !.cpos = @ + result],
           result, b, "ok")

CaptureStream_cache_read_last(c, count) ==
  LET k == BytesIO_seek(c.cache, c.cpos, -count, SEEK_CUR)
      d == BytesIO_read(c.cache, k.pos, count)
  IN  CRes([c EXCEPT !.cpos = k.pos + Len(d)], Len(d), d, "ok")

(***************************************************************************)
(* Field descriptors and the parsing context.  A value is a bytes object,  *)
(* an int, None or a lazy proxy that was not dereferenced yet.  A field is *)
(* a record of the attributes of Field, BytesField, IntegerField and       *)
(* BitField; terminator and padding <<>> stand for None, lengthName "" for *)
(* a length that is not a field name.                                      *)
(***************************************************************************)
VB(b) == [k |-> "bytes", b |-> b, i |-> 0]
VI(i) == [k |-> "int", b |-> <<>>, i |-> i]
VNone == [k |-> "none", b |-> <<>>, i |-> 0]
VLazy == [k |-> "lazy", b |-> <<>>, i |-> 0]

Names == {"f1", "f2", "f3"}
\* stands for None where a field name is expected
NameNone == "None"
\* the name an ArrayField gives its base_field for item i (the int i)
IndexName(i) == <<"0", "1", "2", "3">>[i + 1]

Field ==
  [kind |-> "bytes", name |-> "", length |-> None, lengthName |-> "",
   terminator |-> <<>>, terminator_handler |-> "consume", step |-> 1,
   strict |-> TRUE, padding |-> <<>>, byte_order |-> "", signed |-> FALSE,
   realign |-> FALSE,
   offset |-> None, skip |-> None, lazy |-> FALSE, override |-> "none",
   overrideName |-> "", encoder |-> "none", decoder |-> "none"]

BytesField == Field
FixedLengthField(length) == [BytesField EXCEPT !.length = length]
TerminatedField == [BytesField EXCEPT !.terminator = <<0>>]
IntegerField(length) == [FixedLengthField(length) EXCEPT !.kind = "int"]
BitField(length, realign) ==
  [FixedLengthField(length) EXCEPT !.kind = "bit", !.realign = realign]

\* a record of context.fields; has is FALSE for a name that is not in the dict
FieldContext(value, offset, length, lazy) ==
  [has |-> TRUE, value |-> value, offset |-> offset, length |-> length, lazy |-> lazy]
NoFieldContext ==
  [has |-> FALSE, value |-> VNone, offset |-> None, length |-> None, lazy |-> FALSE]

\* the result of a field operation: stream and context after it, the value
\* and the integer it returns, and "ok" or the exception it raises
FR(s, ctx, value, n, err) ==
  [s |-> s, ctx |-> ctx, value |-> value, n |-> n, err |-> err]

get_field_by_name(E, name) ==
  E.fields[CHOOSE i \in 1..Len(E.fields) : E.fields[i].name = name]

get_previous_field(E, i) == IF i > 1 THEN E.fields[i - 1] ELSE Field
has_previous_field(E, i) == i > 1
has_next_field(E, i) == i < Len(E.fields)
get_next_field(E, i) == IF i < Len(E.fields) THEN E.fields[i + 1] ELSE Field

RECURSIVE Field_from_stream(_, _, _, _)
RECURSIVE FieldContext_value(_, _, _, _)

\* the value of a record: a lazy record is decoded at its offset (a negative
\* offset counts from the end), the cursor is restored, and the record takes
\* the value while the parse is open
FieldContext_value(E, s, ctx, name) ==
  LET rec == ctx[name]
      Restored(d, back) ==
        IF back.err # "ok" THEN FR(d.s, d.ctx, VNone, 0, back.err)
        ELSE FR(back.s,
                IF E.open
                THEN [d.ctx EXCEPT ![name] =
                        FieldContext(d.value, rec.offset, d.n, FALSE)]
                ELSE d.ctx,
                d.value, d.n, "ok")
      Decoded(d) ==
        IF d.err # "ok" THEN FR(d.s, d.ctx, VNone, 0, d.err)
        ELSE Restored(d, BitStream_seek(d.s, s.pos, SEEK_SET))
      Positioned(k) ==
        IF k.err # "ok" THEN FR(s, ctx, VNone, 0, k.err)
        ELSE Decoded(Field_from_stream(E, get_field_by_name(E, name), k.s, ctx))
  IN  IF ~rec.lazy THEN FR(s, ctx, rec.value, 0, "ok")
      ELSE Positioned(BitStream_seek(s, rec.offset,
                                     IF rec.offset < 0 THEN SEEK_END ELSE SEEK_SET))

\* context[name]
\* __getitem__ that hands out 0 for a field that is not loaded
ParsingContext_getitem_defaulted(E, s, ctx, name) ==
  IF ctx[name].has THEN FieldContext_value(E, s, ctx, name)
  ELSE FR(s, ctx, VI(0), 0, "ok")

ParsingContext_getitem(E, s, ctx, name) ==
  IF ctx[name].has THEN FieldContext_value(E, s, ctx, name)
  ELSE IF E.structure /\ (\E i \in 1..Len(E.fields) : E.fields[i].name = name)
  THEN FR(s, ctx, E.inst[name], 0, "ok")
  ELSE FR(s, ctx, VNone, 0, "UnknownDependentFieldError")

\* get_length(context): the literal, or the value of the named field
Field_get_length(E, f, s, ctx) ==
  IF f.lengthName = "" THEN FR(s, ctx, VNone, f.length, "ok")
  ELSE LET Got(g) ==
             IF g.err # "ok" THEN g
             ELSE IF g.value.k # "int" THEN FR(g.s, g.ctx, VNone, 0, "TypeError")
             ELSE FR(g.s, g.ctx, VNone, g.value.i, "ok")
       IN  Got(ParsingContext_getitem(E, s, ctx, f.lengthName))

Field_has_length(f) == f.length # None \/ f.lengthName # ""

\* the for loop of _from_stream_fixed_length over range(0, len(read), step)
RECURSIVE ScanTerminator(_, _, _, _)
ScanTerminator(f, read, i, value) ==
  IF i >= Len(read) THEN [value |-> value, found |-> FALSE]
  ELSE LET c == Slice(read, i, i + f.step)
           v == value \o c
       IN  IF Len(c) = f.step /\ EndsWith(v, f.terminator)
           THEN [value |-> IF f.terminator_handler = "consume"
                           THEN DropLast(v, Len(f.terminator)) ELSE v,
                 found |-> TRUE]
           ELSE ScanTerminator(f, read, i + f.step, v)

\* while value[-len(padding):] == padding: value = value[:-len(padding)]
RECURSIVE StripPadding(_, _)
StripPadding(value, padding) ==
  IF TakeLast(value, Len(padding)) = padding
  THEN StripPadding(DropLast(value, Len(padding)), padding)
  ELSE value

BytesField_from_stream_fixed_length(E, f, s, ctx) ==
  LET Scanned(g, r, t) ==
        IF ~t.found /\ f.strict
        THEN FR(r.s, g.ctx, VNone, 0, "StreamExhaustedError")
        ELSE FR(r.s, g.ctx, VB(t.value), Len(r.data), "ok")
      Read(g, r) ==
        IF r.err # "ok" THEN FR(r.s, g.ctx, VNone, 0, r.err)
        ELSE IF Len(r.data) < g.n /\ f.strict
        THEN FR(r.s, g.ctx, VNone, 0, "StreamExhaustedError")
        ELSE IF f.terminator # <<>>
        THEN Scanned(g, r, ScanTerminator(f, r.data, 0, <<>>))
        ELSE IF f.padding # <<>>
        THEN FR(r.s, g.ctx, VB(StripPadding(r.data, f.padding)), Len(r.data), "ok")
        ELSE FR(r.s, g.ctx, VB(r.data), Len(r.data), "ok")
      Sized(g) == IF g.err # "ok" THEN g ELSE Read(g, BitStream_read(g.s, g.n))
  IN  Sized(Field_get_length(E, f, s, ctx))

\* the while loop of _from_stream_terminated; io.BytesIO has no peek
RECURSIVE BytesField_from_stream_terminated_loop(_, _, _, _)
BytesField_from_stream_terminated_loop(f, s, ctx, read) ==
  LET Until(back, stripped) ==
        FR(back.s, ctx, VB(stripped), Len(stripped), back.err)
      Terminated(r, rd, stripped) ==
        IF f.terminator_handler = "consume"
        THEN FR(r.s, ctx, VB(stripped), Len(rd), "ok")
        ELSE IF f.terminator_handler = "include"
        THEN FR(r.s, ctx, VB(rd), Len(rd), "ok")
        ELSE Until(BitStream_seek(r.s, 0 - Len(f.terminator), SEEK_CUR), stripped)
      Step(r, rd) ==
        IF r.err # "ok" THEN FR(r.s, ctx, VNone, 0, r.err)
        ELSE IF Len(r.data) # f.step
        THEN IF f.strict THEN FR(r.s, ctx, VNone, 0, "StreamExhaustedError")
             ELSE FR(r.s, ctx, VB(rd), Len(rd), "ok")
        ELSE IF EndsWith(rd, f.terminator)
        THEN Terminated(r, rd, DropLast(rd, Len(f.terminator)))
        ELSE BytesField_from_stream_terminated_loop(f, r.s, ctx, rd)
      Read(r) == Step(r, read \o r.data)
  IN  Read(BitStream_read(s, f.step))

BytesField_from_stream_terminated(E, f, s, ctx) ==
  BytesField_from_stream_terminated_loop(f, s, ctx, <<>>)

BytesField_from_stream(E, f, s, ctx) ==
  IF ~Field_has_length(f) THEN BytesField_from_stream_terminated(E, f, s, ctx)
  ELSE BytesField_from_stream_fixed_length(E, f, s, ctx)


Reverse(b) == [i \in 1..Len(b) |-> b[Len(b) + 1 - i]]

\* the two's complement reading of an unsigned number of count bytes
ToSigned(number, count) ==
  IF count > 0 /\ 2 * number >= Pow256(count) THEN number - Pow256(count) ELSE number

\* int.from_bytes(result, byteorder, signed=self.signed); byteorder None raises
IntegerField_from_stream(E, f, s, ctx) ==
  LET Unsigned(r, u) ==
        FR(r.s, r.ctx, VI(IF f.signed THEN ToSigned(u, Len(r.value.b)) ELSE u), r.n, "ok")
      Ordered(r, byteorder) ==
        IF byteorder = "" THEN FR(r.s, r.ctx, VNone, 0, "TypeError")
        ELSE Unsigned(r, IntFromBytesBig(IF byteorder = "big" THEN r.value.b
                                         ELSE Reverse(r.value.b)))
      Read(r) ==
        IF r.err # "ok" THEN r
        ELSE Ordered(r, IF f.byte_order = "" /\ Len(r.value.b) = 1 THEN "big"
                        ELSE f.byte_order)
  IN  Read(BytesField_from_stream(E, f, s, ctx))

BitField_from_stream(E, f, s, ctx) ==
  LET Read(g, r) ==
        IF r.err # "ok" THEN FR(r.s, g.ctx, VNone, 0, r.err)
        ELSE FR(IF f.realign THEN BitStream_discard_bits(r.s).s ELSE r.s,
                g.ctx, VI(r.value), r.n, "ok")
      Sized(g) == IF g.err # "ok" THEN g ELSE Read(g, BitStream_read_bits(g.s, g.n))
  IN  Sized(Field_get_length(E, f, s, ctx))

Field_from_stream(E, f, s, ctx) ==
  IF f.kind = "int" THEN IntegerField_from_stream(E, f, s, ctx)
  ELSE IF f.kind = "bit" THEN BitField_from_stream(E, f, s, ctx)
  ELSE BytesField_from_stream(E, f, s, ctx)

\* padding * remaining
RECURSIVE Repeat(_, _)
Repeat(b, n) == IF n <= 0 THEN <<>> ELSE b \o Repeat(b, n - 1)

\* a write result as a field result
FW(w, ctx) == FR(w.s, ctx, VNone, w.n, w.err)

\* _to_stream_fixed_length that writes the value whatever its length
BytesField_to_stream_fixed_length_unfitted(E, f, s, value, ctx) ==
  FW(BitStream_write(s, value.b), ctx)

BytesField_to_stream_fixed_length(E, f, s, value, ctx) ==
  LET Write(g, b) == FW(BitStream_write(g.s, b), g.ctx)
      Fitted(g, length, v1, remaining) ==
        IF length < 0 THEN Write(g, v1)
        ELSE IF Len(v1) < length
        THEN IF f.padding # <<>>
             THEN IF f.strict /\ remaining % Len(f.padding) # 0
                  THEN FR(g.s, g.ctx, VNone, 0, "WriteError")
                  ELSE Write(g, Take(v1 \o Repeat(f.padding, remaining), length))
             ELSE IF f.strict THEN FR(g.s, g.ctx, VNone, 0, "WriteError")
             ELSE Write(g, v1)
        ELSE IF Len(v1) > length
        THEN IF f.strict THEN FR(g.s, g.ctx, VNone, 0, "WriteError")
             ELSE Write(g, Take(v1, length))
        ELSE Write(g, v1)
      Terminated(g, v1) == Fitted(g, g.n, v1, g.n - Len(v1))
      Sized(g) ==
        IF g.err # "ok" THEN g
        ELSE IF value.k # "bytes" THEN FR(g.s, g.ctx, VNone, 0, "TypeError")
        ELSE IF f.terminator # <<>> /\ f.terminator_handler = "include"
                /\ ~EndsWith(value.b, f.terminator) /\ f.strict
        THEN FR(g.s, g.ctx, VNone, 0, "WriteError")
        ELSE Terminated(g, IF f.terminator # <<>> /\ f.terminator_handler = "consume"
                           THEN value.b \o f.terminator ELSE value.b)
  IN  Sized(Field_get_length(E, f, s, ctx))

BytesField_to_stream_terminated(E, f, s, value, ctx) ==
  IF value.k # "bytes" THEN FR(s, ctx, VNone, 0, "TypeError")
  ELSE IF f.terminator_handler = "consume"
  THEN FW(BitStream_write(s, value.b \o f.terminator), ctx)
  ELSE IF f.terminator_handler = "include"
          /\ ~EndsWith(value.b, f.terminator) /\ f.strict
  THEN FR(s, ctx, VNone, 0, "WriteError")
  ELSE FW(BitStream_write(s, value.b), ctx)

BytesField_to_stream(E, f, s, value, ctx) ==
  IF ~Field_has_length(f) THEN BytesField_to_stream_terminated(E, f, s, value, ctx)
  ELSE BytesField_to_stream_fixed_length(E, f, s, value, ctx)

\* the range of int.to_bytes(length, ..., signed=signed)
Representable(number, length, signed) ==
  IF signed THEN -Pow256(length) <= 2 * number /\ 2 * number < Pow256(length)
  ELSE 0 <= number /\ number < Pow256(length)

\* to_stream that keeps the low bytes of a value that does not fit
IntegerField_to_stream_wrapped(E, f, s, value, ctx) ==
  FW(BitStream_write(s, IntToBytesBig(value.i % Pow256(f.length), f.length)), ctx)

\* value.to_bytes(length, byteorder, signed=self.signed)
IntegerField_to_stream(E, f, s, value, ctx) ==
  LET Encoded(g, byteorder, big) ==
        FW(BitStream_write(g.s, IF byteorder = "big" THEN big ELSE Reverse(big)),
           g.ctx)
      Ordered(g, byteorder) ==
        IF value.k # "int" THEN FR(g.s, g.ctx, VNone, 0, "AttributeError")
        ELSE IF byteorder = "" THEN FR(g.s, g.ctx, VNone, 0, "TypeError")
        ELSE IF g.n < 0 THEN FR(g.s, g.ctx, VNone, 0, "ValueError")
        ELSE IF ~Representable(value.i, g.n, f.signed)
        THEN FR(g.s, g.ctx, VNone, 0, "OverflowError")
        ELSE Encoded(g, byteorder,
                     IntToBytesBig(IF value.i < 0 THEN value.i + Pow256(g.n) ELSE value.i,
                                   g.n))
      Sized(g) ==
        IF g.err # "ok" THEN g
        ELSE Ordered(g, IF f.byte_order = "" /\ g.n = 1 THEN "big" ELSE f.byte_order)
  IN  Sized(Field_get_length(E, f, s, ctx))

BitField_to_stream(E, f, s, value, ctx) ==
  LET Realigned(g, w, fin) == FR(fin.s, g.ctx, VNone, w.n + fin.n, fin.err)
      Written(g, w) ==
        IF w.err # "ok" THEN FW(w, g.ctx)
        ELSE IF f.realign THEN Realigned(g, w, BitStream_finalize(w.s))
        ELSE FW(w, g.ctx)
      Sized(g) ==
        IF g.err # "ok" THEN g
        ELSE IF value.k # "int" THEN FR(g.s, g.ctx, VNone, 0, "TypeError")
        ELSE Written(g, BitStream_write_bits(g.s, value.i, g.n))
  IN  Sized(Field_get_length(E, f, s, ctx))

Field_to_stream(E, f, s, value, ctx) ==
  IF f.kind = "int" THEN IntegerField_to_stream(E, f, s, value, ctx)
  ELSE IF f.kind = "bit" THEN BitField_to_stream(E, f, s, value, ctx)
  ELSE BytesField_to_stream(E, f, s, value, ctx)

\* decode_value and encode_value: the decoder "dec" is lambda v: v - 1, the
\* encoder "inc" is lambda v: v + 1; both raise TypeError on a value that is
\* not an int
Field_decode_value(f, value) ==
  IF f.decoder = "none" THEN [value |-> value, err |-> "ok"]
  ELSE IF value.k # "int" THEN [value |-> VNone, err |-> "TypeError"]
  ELSE [value |-> VI(value.i - 1), err |-> "ok"]

Field_encode_value(f, value) ==
  IF f.encoder = "none" THEN [value |-> value, err |-> "ok"]
  ELSE IF value.k # "int" THEN [value |-> VNone, err |-> "TypeError"]
  ELSE [value |-> VI(value.i + 1), err |-> "ok"]

\* decode_from_stream: from_stream, then decode_value
Field_decode_from_stream(E, f, s, ctx) ==
  LET r == Field_from_stream(E, f, s, ctx)
      d == Field_decode_value(f, r.value)
  IN  IF r.err # "ok" THEN r
      ELSE IF d.err # "ok" THEN FR(r.s, r.ctx, VNone, 0, d.err)
      ELSE [r EXCEPT !.value = d.value]

\* encode_to_stream: encode_value, then to_stream
Field_encode_to_stream(E, f, s, value, ctx) ==
  LET e == Field_encode_value(f, value)
  IN  IF e.err # "ok" THEN FR(s, ctx, VNone, 0, e.err)
      ELSE Field_to_stream(E, f, s, e.value, ctx)

\* seek_start(stream, context, offset): offset is relative to the start of
\* the structure, the position returned is absolute
Field_seek_start(E, f, s, offset) ==
  IF f.offset # None
  THEN IF f.offset < 0 THEN BitStream_seek(s, f.offset, SEEK_END)
       ELSE BitStream_seek(s, f.offset, SEEK_SET)
  ELSE IF f.skip # None THEN BitStream_seek(s, f.skip, SEEK_CUR)
  ELSE IF E.alignment # None /\ offset % E.alignment # 0
  THEN BitStream_seek(s, E.alignment - (offset % E.alignment), SEEK_CUR)
  ELSE BitStream_tell(s)

BitField_seek_start(E, i, s, offset) ==
  LET f == E.fields[i]
      prev_field == get_previous_field(E, i)
  IN  IF f.offset # None \/ f.skip # None THEN Field_seek_start(E, f, s, offset)
      ELSE IF E.alignment # None
              /\ (~(has_previous_field(E, i) /\ prev_field.kind = "bit")
                  \/ prev_field.realign)
      THEN Field_seek_start(E, f, s, offset)
      ELSE BitStream_tell(s)

seek_start(E, i, s, offset) ==
  IF E.fields[i].kind = "bit" THEN BitField_seek_start(E, i, s, offset)
  ELSE Field_seek_start(E, E.fields[i], s, offset)

\* seek_end(stream, context, offset): n is the position after the field, or
\* None when the field has to be parsed to find its end
BytesField_seek_end(E, f, s, ctx) ==
  LET Sought(g, k) == FR(k.s, g.ctx, VNone, k.n, k.err)
      Sized(g) == IF g.err # "ok" THEN g ELSE Sought(g, BitStream_seek(g.s, g.n, SEEK_CUR))
  IN  IF ~Field_has_length(f) THEN FR(s, ctx, VNone, None, "ok")
      ELSE Sized(Field_get_length(E, f, s, ctx))

BitField_seek_end(E, f, s, ctx) == FR(s, ctx, VNone, None, "ok")

seek_end(E, f, s, ctx) ==
  IF f.kind = "bit" THEN BitField_seek_end(E, f, s, ctx)
  ELSE BytesField_seek_end(E, f, s, ctx)

\* get_final_value(value, context): the override applied to the attribute;
\* "auto" is the override BytesField.initialize installs, "ident" is
\* lambda c, v: v
Field_get_overridden_value(E, f, s, value, ctx) ==
  LET Got(g) ==
        IF g.err # "ok" THEN g
        ELSE IF g.value.k # "bytes" THEN FR(g.s, g.ctx, VNone, 0, "TypeError")
        ELSE FR(g.s, g.ctx, VI(Len(g.value.b)), 0, "ok")
  IN  IF f.override = "none" \/ f.override = "ident" THEN FR(s, ctx, value, 0, "ok")
      ELSE Got(ParsingContext_getitem(E, s, ctx, f.overrideName))

has_override(f) == f.override # "none"

\* BytesField.initialize that replaces an override the field declares
BytesField_initialize_always(fields, f) ==
  [i \in 1..Len(fields) |->
     IF f.kind # "bit" /\ f.lengthName # "" /\ fields[i].name = f.lengthName
     THEN [fields[i] EXCEPT !.override = "auto", !.overrideName = f.name]
     ELSE fields[i]]

\* BytesField.initialize of every field: the field named by a length gets
\* the override len(s[name]) unless it has an override already
BytesField_initialize(fields, f) ==
  [i \in 1..Len(fields) |->
     IF f.kind # "bit" /\ f.lengthName # "" /\ fields[i].name = f.lengthName
        /\ ~has_override(fields[i])
     THEN [fields[i] EXCEPT !.override = "auto", !.overrideName = f.name]
     ELSE fields[i]]

RECURSIVE initialize_fields_from(_, _)
initialize_fields_from(fields, i) ==
  IF i > Len(fields) THEN fields
  ELSE initialize_fields_from(BytesField_initialize(fields, fields[i]), i + 1)

initialize_fields(fields) == initialize_fields_from(fields, 1)

(***************************************************************************)
(* The Structure driver: the loops of from_stream and to_stream, one       *)
(* iteration at a time.  E is the structure and its context:               *)
(* [fields, alignment, open, structure, inst], with open the parse not     *)
(* being done yet, structure the context being bound to an instance and    *)
(* inst the attributes of that instance.                                   *)
(***************************************************************************)
preparsable(f) == f.lazy /\ f.offset # None

\* from_stream without the pass over the preparsable fields
Structure_preparse_skipped(fields) == [n \in Names |-> NoFieldContext]

\* the records the preparse loop creates
Structure_preparse(fields) ==
  [n \in Names |->
     IF \E i \in 1..Len(fields) : fields[i].name = n /\ preparsable(fields[i])
     THEN FieldContext(VNone,
                       fields[CHOOSE i \in 1..Len(fields) : fields[i].name = n].offset,
                       None, TRUE)
     ELSE NoFieldContext]

\* the state of a loop: stream, context, offset, max_offset, the branch the
\* iteration took and "ok" or the exception raised
DS(s, ctx, offset, max_offset, branch, err) ==
  [s |-> s, ctx |-> ctx, offset |-> offset, max_offset |-> max_offset,
   branch |-> branch, err |-> err]

\* one iteration of the field loop of from_stream
Structure_from_stream_field(E, i, s, ctx, start_offset, offset, max_offset) ==
  LET f == E.fields[i]
      rec == ctx[f.name]
      need_lazy_offset ==
        f.lazy /\ has_next_field(E, i) /\ get_next_field(E, i).offset = None
      Resolved(k, sk) ==
        DS(sk.s, ctx, k.n + rec.length, Max(k.n + rec.length, max_offset),
           "resolved", sk.err)
      Decoded(k, d) ==
        IF d.err # "ok" THEN DS(d.s, d.ctx, k.n, max_offset, "none", d.err)
        ELSE DS(d.s, [d.ctx EXCEPT ![f.name] = FieldContext(d.value, k.n, d.n, FALSE)],
                k.n + d.n, Max(k.n + d.n, max_offset), "decoded", "ok")
      Referenced(k, e, lazy_length) ==
        DS(e.s,
           IF e.ctx[f.name].has
           THEN [e.ctx EXCEPT ![f.name].length = lazy_length]
           ELSE [e.ctx EXCEPT ![f.name] = FieldContext(VNone, k.n, lazy_length, TRUE)],
           k.n, max_offset, "lazy", "ok")
      Measured(k, e, lazy_offset) ==
        IF e.err # "ok" THEN DS(e.s, e.ctx, k.n, max_offset, "none", e.err)
        ELSE IF ~f.lazy \/ (lazy_offset = None /\ need_lazy_offset)
        THEN Decoded(k, Field_from_stream(E, f, e.s, e.ctx))
        ELSE Referenced(k, e, IF lazy_offset = None THEN None ELSE lazy_offset - k.n)
      AtEnd(k, e) == Measured(k, e, e.n)
      Started(k) ==
        IF k.err # "ok" THEN DS(k.s, ctx, offset, max_offset, "none", k.err)
        ELSE IF rec.has /\ ~rec.lazy
        THEN Resolved(k, BitStream_seek(k.s, rec.length, SEEK_CUR))
        ELSE AtEnd(k, IF need_lazy_offset THEN seek_end(E, f, k.s, ctx)
                      ELSE FR(k.s, ctx, VNone, None, "ok"))
  IN  Started(seek_start(E, i, s, offset - start_offset))

\* the initial values with no proxy: the value of the record as it stands
Structure_initial_values_unresolved(ctx) == [n \in Names |-> ctx[n].value]

\* the values of the instance from_stream builds: a proxy for a lazy record
Structure_initial_values(ctx) ==
  [n \in Names |-> IF ctx[n].has /\ ctx[n].lazy THEN VLazy ELSE ctx[n].value]

\* the first loop of to_stream: get_final_value of every attribute
RECURSIVE Structure_final_values(_, _, _, _, _)
Structure_final_values(E, s, ctx, i, values) ==
  IF i > Len(E.fields) THEN FR(s, values, VNone, 0, "ok")
  ELSE LET f == E.fields[i]
           Final(g) ==
             IF g.err # "ok" THEN FR(g.s, values, VNone, 0, g.err)
             ELSE Structure_final_values(E, g.s, g.ctx, i + 1,
                                         [values EXCEPT ![f.name] = g.value])
       IN  Final(Field_get_overridden_value(E, f, s, E.inst[f.name], ctx))

\* context.field_values
ParsingContext_field_values(ctx) == [n \in Names |-> ctx[n].value]

\* context.field_values = values
ParsingContext_set_field_values(E, values) ==
  [n \in Names |->
     IF \E i \in 1..Len(E.fields) : E.fields[i].name = n
     THEN FieldContext(values[n], None, None, FALSE)
     ELSE NoFieldContext]

\* all(f(context.f) for f in _meta.checks): "equal" stands for the list
\* [lambda c: c.f1 == c.f2], "none" for no checks; the checks that pass
\* without raising
Structure_checks_skipped(E, s, ctx) == FR(s, ctx, VNone, 0, "ok")

Structure_checks(E, s, ctx) ==
  LET Compared(a, b) ==
        IF b.err # "ok" THEN FR(b.s, b.ctx, VNone, 0, b.err)
        ELSE IF a.value # b.value THEN FR(b.s, b.ctx, VNone, 0, "CheckError")
        ELSE FR(b.s, b.ctx, VNone, 0, "ok")
      Left(a) ==
        IF a.err # "ok" THEN FR(a.s, a.ctx, VNone, 0, a.err)
        ELSE Compared(a, ParsingContext_getitem(E, a.s, a.ctx, "f2"))
  IN  IF E.checks = "none" THEN FR(s, ctx, VNone, 0, "ok")
      ELSE Left(ParsingContext_getitem(E, s, ctx, "f1"))

\* one iteration of the field loop of to_stream
Structure_to_stream_field(E, i, s, ctx, start_offset, offset, max_offset) ==
  LET f == E.fields[i]
      value == ctx[f.name].value
      Written(k, w) ==
        IF w.err # "ok" THEN DS(w.s, w.ctx, k.n, max_offset, "none", w.err)
        ELSE DS(w.s, [w.ctx EXCEPT ![f.name] = FieldContext(value, k.n, w.n, FALSE)],
                k.n + w.n, Max(k.n + w.n, max_offset), "written", "ok")
      Started(k) ==
        IF k.err # "ok" THEN DS(k.s, ctx, offset, max_offset, "none", k.err)
        ELSE Written(k, Field_to_stream(E, f, k.s, value, ctx))
  IN  Started(seek_start(E, i, s, offset - start_offset))

\* the end of to_stream: offset += stream.finalize()
\* the end of to_stream without the bytes finalize() writes
Structure_to_stream_finalize_uncounted(s, ctx, offset, max_offset) ==
  LET fin == BitStream_finalize(s)
  IN  DS(fin.s, ctx, offset, max_offset, "none", fin.err)

Structure_to_stream_finalize(s, ctx, offset, max_offset) ==
  LET fin == BitStream_finalize(s)
  IN  DS(fin.s, ctx, offset + fin.n, Max(offset + fin.n, max_offset), "none", fin.err)

(***************************************************************************)
(* State.                                                                  *)
(***************************************************************************)
VARIABLES
  \* two Substreams over one raw stream
  sraw,      \* the shared raw stream [raw, pos, seekable]
  subs,      \* subs[i]: the Substream object i
  slast,     \* the last call made on a Substream and what it returned
  \* a BitStream used directly
  bs,        \* the BitStream [raw, pos, bits]
  blast,     \* the last call made on the BitStream and what it returned
  \* a Structure being parsed and written
  layout,    \* the structure class: [fields, alignment]
  input,     \* the bytes handed to the first from_stream
  start,     \* the position of the stream when the driver is entered
  run,       \* the call in progress: "first", "eager", "write" or "second"
  pc,        \* its position: "begin", "field", "end", "deref" or "done"
  stream,    \* the BitStream the driver wrapped around the stream
  context,   \* context.fields
  idx,       \* the index of the field the loop is at
  start_offset,
  offset,
  max_offset,
  inst,      \* the attributes of the Structure instance
  out,       \* out[r]: what call r returned or raised
  took,      \* took[name]: the branch the loop took for the field
  \* a field called directly
  fcall,     \* the call: [op, field, data, value, items, start]
  fret,      \* fret[seekable]: what the call returned or raised on such a stream
  floop,     \* floop[seekable]: the loop of the wrapping field on such a stream
  \* a CaptureStream over a raw stream
  cs,        \* the CaptureStream [r, cache, cpos]: raw stream, _cache and its cursor
  clast,     \* the last call made on it and what it returned
  cseen,     \* cseen[o]: the byte last read or written at raw offset o, None if none
  \* a field descriptor used by two callers
  shared,    \* the descriptor: the base_field of an ArrayField
  par        \* par[p]: the call of caller p that uses the descriptor under a name

subVars == <<sraw, subs, slast>>
bitVars == <<bs, blast>>
drvVars == <<layout, input, start, run, pc, stream, context, idx, start_offset,
             offset, max_offset, inst, out, took>>
fldVars == <<fcall, fret, floop>>
capVars == <<cs, clast, cseen>>
namVars == <<shared, par>>
vars == <<sraw, subs, slast, bs, blast, layout, input, start, run, pc, stream,
          context, idx, start_offset, offset, max_offset, inst, out, took, fcall, fret, floop,
          cs, clast, cseen, shared, par>>

(***************************************************************************)
(* Two Substreams over one raw stream, and other users of the raw stream.  *)
(* slast.at is the raw offset at which the call did its I/O, slast.p the   *)
(* _position the Substream held before the call (the one its own previous  *)
(* operation left) and slast.rawBefore the raw cursor before the call.     *)
(***************************************************************************)
RawImage == [i \in 1..MaxRawLen |-> 10 + i]
SubIds == {1, 2}
WriteByte == 99
OtherStart == 1

SLog(op, who, res, at, a1, a2) ==
  [op |-> op, who |-> who, n |-> res.n, data |-> res.data, err |-> res.err, at |-> at,
   p |-> subs[who].position, rawBefore |-> sraw.pos, a1 |-> a1, a2 |-> a2]

SubInit ==
  \E seekable \in BOOLEAN, start1 \in 0..1, length1 \in (0..MaxSubLen) \cup {None} :
    LET r0 == [raw |-> RawImage, pos |-> 0, seekable |-> seekable]
        c1 == Substream_init(r0, start1, length1)
        c2 == Substream_init(c1.r, OtherStart, MaxSubLen)
    IN  /\ sraw = c2.r
        /\ subs = [i \in SubIds |-> IF i = 1 THEN c1.sub ELSE c2.sub]
        /\ slast = [op |-> "init", who |-> 0, n |-> 0, data |-> <<>>, err |-> "ok", at |-> 0,
                    p |-> 0, rawBefore |-> 0, a1 |-> 0, a2 |-> 0]

\* the common effect of a call on Substream i with outcome res
SubApply(i, op, res, at, a1, a2) ==
  /\ res.r.pos <= MaxRawLen + 1
  /\ sraw' = res.r
  /\ subs' = [subs EXCEPT ![i] = res.sub]
  /\ slast' = SLog(op, i, res, at, a1, a2)
  /\ UNCHANGED <<bitVars, drvVars, fldVars, capVars, namVars>>

SubRead(i, size) ==
  LET res == Substream_read(subs[i], sraw, size)
  IN  SubApply(i, "read", res, res.r.pos - res.n, size, 0)

SubWrite(i) ==
  LET res == Substream_write(subs[i], sraw, <<WriteByte>>)
  IN  /\ Len(res.r.raw) <= MaxRawLen
      /\ SubApply(i, "write", res, res.r.pos - res.n, 0, 0)

SubSeek(i, off, whence) ==
  LET res == Substream_seek(subs[i], sraw, off, whence)
  IN  SubApply(i, "seek", res, res.r.pos, off, whence)

SubTell(i) ==
  LET res == Substream_tell(subs[i], sraw)
  IN  SubApply(i, "tell", res, res.r.pos, 0, 0)

\* another user of the raw stream seeks it
RawMove(p) ==
  /\ sraw.seekable
  /\ sraw' = [sraw EXCEPT !.pos = p]
  /\ UNCHANGED <<subs, slast, bitVars, drvVars, fldVars, capVars, namVars>>

\* another user of the raw stream reads one byte from it
RawConsume ==
  /\ sraw.pos < Len(sraw.raw)
  /\ sraw' = [sraw EXCEPT !.pos = @ + 1]
  /\ UNCHANGED <<subs, slast, bitVars, drvVars, fldVars, capVars, namVars>>

SubNext ==
  \/ \E size \in -1..MaxSeek : SubRead(1, size)
  \/ SubWrite(1)
  \/ \E off \in -MaxSeek..(MaxSeek + 1), whence \in {SEEK_SET, SEEK_CUR, SEEK_END} :
       SubSeek(1, off, whence)
  \/ SubTell(1)
  \/ \E p \in 0..(MaxRawLen + 1) : RawMove(p)
  \/ RawConsume

\* the two views alone, without other users of the raw stream
TwoSubNext ==
  \/ \E i \in SubIds, size \in -1..MaxSeek : SubRead(i, size)
  \/ \E i \in SubIds : SubWrite(i)
  \/ \E i \in SubIds, off \in -MaxSeek..(MaxSeek + 1), whence \in {SEEK_SET, SEEK_CUR, SEEK_END} :
       SubSeek(i, off, whence)
  \/ \E i \in SubIds : SubTell(i)

(***************************************************************************)
(* A BitStream over a BytesIO, called directly.  blast.pre is the stream   *)
(* state before the last call, bops the number of calls made.              *)
(***************************************************************************)
MaxOps == 3           \* calls made on the BitStream
MaxBitOp == 4         \* read_bits / write_bits take 1..MaxBitOp bits, or a whole byte
BitCounts == (1..MaxBitOp) \cup {8}
ByteOps == {"read", "write", "seek", "flush"}

BLog(op, a1, a2, res) ==
  [op |-> op, a1 |-> a1, a2 |-> a2, pre |-> bs, n |-> res.n, data |-> res.data,
   err |-> res.err, count |-> blast.count + 1]

BitInit ==
  /\ bs = BitStream_init(RawImage, 0)
  /\ blast = [op |-> "init", a1 |-> 0, a2 |-> 0, pre |-> BitStream_init(RawImage, 0),
              n |-> 0, data |-> <<>>, err |-> "ok", count |-> 0]

BitApply(op, a1, a2, res) ==
  /\ blast.count < MaxOps
  /\ Len(res.s.raw) <= MaxRawLen + 1
  /\ bs' = res.s
  /\ blast' = BLog(op, a1, a2, res)
  /\ UNCHANGED <<subVars, drvVars, fldVars, capVars, namVars>>

BsReadBits(n) ==
  LET r == BitStream_read_bits(bs, n)
  IN  BitApply("read_bits", n, 0, [s |-> r.s, n |-> r.value, data |-> <<>>, err |-> r.err])
BsWriteBits(v, n) == BitApply("write_bits", v, n, BitStream_write_bits(bs, v, n))
BsRead(size) == BitApply("read", size, 0, BitStream_read(bs, size))
BsWrite(b) == BitApply("write", b, 0, BitStream_write(bs, <<b>>))
BsSeek(off, whence) == BitApply("seek", off, whence, BitStream_seek(bs, off, whence))
BsFlush == BitApply("flush", 0, 0, BitStream_flush(bs))
BsDiscardBits == BitApply("discard_bits", 0, 0, BitStream_discard_bits(bs))
BsFinalize == BitApply("finalize", 0, 0, BitStream_finalize(bs))

BitNext ==
  \/ \E n \in BitCounts : BsReadBits(n)
  \/ \E n \in BitCounts : \E v \in {1, Pow2(n) - 1} : BsWriteBits(v, n)
  \/ \E size \in {-1, 1} : BsRead(size)
  \/ BsWrite(WriteByte)
  \/ \E off \in -1..1, whence \in {SEEK_SET, SEEK_CUR, SEEK_END} : BsSeek(off, whence)
  \/ BsFlush
  \/ BsDiscardBits
  \/ BsFinalize

SubIdle ==
  /\ sraw = [raw |-> <<>>, pos |-> 0, seekable |-> TRUE]
  /\ subs = <<>>
  /\ slast = [op |-> "init"]

BitIdle == bs = BitStream_init(<<>>, 0) /\ blast = [op |-> "init"]

(***************************************************************************)
(* The Structure driver as a state machine.  A structure class and an      *)
(* input are chosen, then the calls follow each other: from_stream on the  *)
(* input ("first"), every lazy attribute dereferenced, from_stream of the  *)
(* same class with no field lazy ("eager"), to_stream of the first         *)
(* instance ("write") and from_stream of the bytes written ("second"); or  *)
(* an instance is constructed with chosen attributes, written and parsed.  *)
(***************************************************************************)
Runs == {"first", "eager", "write", "second"}
ParseRuns == {"first", "eager", "second"}

EmptyContext == [n \in Names |-> NoFieldContext]
NoValues == [n \in Names |-> VNone]
NoBranches == [n \in Names |-> "none"]
NoOut ==
  [status |-> "none", deref |-> "none", values |-> NoValues, n |-> 0, pos |-> 0,
   entry |-> 0, raw |-> <<>>, ctx |-> EmptyContext, took |-> NoBranches]

\* the fields of the class the call in progress uses
RunFields ==
  IF run = "eager"
  THEN [i \in 1..Len(layout.fields) |-> [layout.fields[i] EXCEPT !.lazy = FALSE]]
  ELSE layout.fields

Env(open, structure) ==
  [fields |-> RunFields, alignment |-> layout.alignment, checks |-> layout.checks,
   open |-> open, structure |-> structure, inst |-> inst]

\* the call that follows call r
NextRun(r, ok) ==
  IF r = "first" THEN "eager"
  ELSE IF r = "eager"
  THEN IF out["first"].status = "ok" /\ out["first"].deref = "ok" THEN "write"
       ELSE "done"
  ELSE IF r = "write" /\ ok THEN "second"
  ELSE "done"

Advance(ok) ==
  /\ run' = IF NextRun(run, ok) = "done" THEN run ELSE NextRun(run, ok)
  /\ pc' = IF NextRun(run, ok) = "done" THEN "done" ELSE "begin"

\* the call in progress raises err
Raise(err, s) ==
  /\ out' = [out EXCEPT ![run] = [@ EXCEPT !.status = err, !.pos = s.pos,
                                           !.raw = s.raw]]
  /\ stream' = s
  /\ Advance(FALSE)
  /\ UNCHANGED <<context, idx, start_offset, offset, max_offset, inst, took>>

\* the class, the input and the other objects stay as they are
DrvFrame == UNCHANGED <<layout, input, start, subVars, bitVars, fldVars, capVars, namVars>>

FromStreamBegin ==
  /\ pc = "begin" /\ run \in ParseRuns
  /\ LET s == BitStream_init(IF run = "second" THEN out["write"].raw ELSE input, start)
         t == BitStream_tell(s)
     IN  /\ stream' = s
         /\ start_offset' = t.n /\ offset' = t.n /\ max_offset' = t.n
  /\ context' = Structure_preparse(RunFields)
  /\ idx' = 1
  /\ pc' = "field"
  /\ took' = NoBranches
  /\ UNCHANGED <<run, inst, out>>
  /\ DrvFrame

FromStreamField ==
  /\ pc = "field" /\ run \in ParseRuns
  /\ \E r \in {Structure_from_stream_field(Env(TRUE, FALSE), idx, stream, context,
                                            start_offset, offset, max_offset)} :
         IF r.err # "ok" THEN Raise(r.err, r.s)
         ELSE /\ stream' = r.s
              /\ context' = r.ctx
              /\ offset' = r.offset
              /\ max_offset' = r.max_offset
              /\ took' = [took EXCEPT ![RunFields[idx].name] = r.branch]
              /\ idx' = idx + 1
              /\ pc' = IF idx = Len(RunFields) THEN "end" ELSE "field"
              /\ UNCHANGED <<run, start_offset, inst, out>>
  /\ DrvFrame

\* the initial values are taken, then the checks run; the instance exists
\* only when they pass
FromStreamEnd ==
  /\ pc = "end" /\ run \in ParseRuns
  /\ \E c \in {Structure_checks(Env(TRUE, FALSE), stream, context)} :
         /\ stream' = c.s
         /\ context' = c.ctx
         /\ IF c.err # "ok"
            THEN /\ out' = [out EXCEPT ![run] =
                              [@ EXCEPT !.status = c.err, !.pos = c.s.pos,
                                        !.raw = c.s.raw, !.ctx = c.ctx, !.took = took]]
                 /\ Advance(FALSE)
                 /\ UNCHANGED inst
            ELSE /\ inst' = Structure_initial_values(context)
                 /\ out' = [out EXCEPT ![run] =
                              [@ EXCEPT !.status = "ok", !.n = max_offset - start_offset,
                                        !.pos = c.s.pos, !.entry = start_offset,
                                        !.raw = c.s.raw, !.ctx = c.ctx, !.took = took]]
                 /\ pc' = "deref"
                 /\ UNCHANGED run
  /\ UNCHANGED <<idx, start_offset, offset, max_offset, took>>
  /\ DrvFrame

\* the first attribute that is still a proxy is dereferenced
Deref ==
  /\ pc = "deref"
  /\ \E i \in 1..Len(RunFields) :
       /\ inst[RunFields[i].name].k = "lazy"
       /\ \A j \in 1..(i - 1) : inst[RunFields[j].name].k # "lazy"
       /\ \E r \in {FieldContext_value(Env(FALSE, FALSE), stream, context,
                                        RunFields[i].name)} :
              IF r.err # "ok"
              THEN /\ out' = [out EXCEPT ![run].deref = r.err]
                   /\ Advance(FALSE)
                   /\ UNCHANGED <<stream, context, inst>>
              ELSE /\ inst' = [inst EXCEPT ![RunFields[i].name] = r.value]
                   /\ stream' = r.s
                   /\ context' = r.ctx
                   /\ UNCHANGED <<run, pc, out>>
  /\ UNCHANGED <<idx, start_offset, offset, max_offset, took>>
  /\ DrvFrame

\* every attribute is a plain value: the instance is complete
DerefDone ==
  /\ pc = "deref"
  /\ \A i \in 1..Len(RunFields) : inst[RunFields[i].name].k # "lazy"
  /\ out' = [out EXCEPT ![run] = [@ EXCEPT !.deref = "ok", !.values = inst]]
  /\ Advance(TRUE)
  /\ UNCHANGED <<stream, context, idx, start_offset, offset, max_offset, inst, took>>
  /\ DrvFrame

ToStreamBegin ==
  /\ pc = "begin" /\ run = "write"
  /\ \E v \in {Structure_final_values(Env(TRUE, TRUE),
                                        BitStream_init(Zeros(start), start),
                                        EmptyContext, 1, NoValues)} :
         IF v.err # "ok" THEN Raise(v.err, v.s)
         ELSE \E c \in {Structure_checks(
                           Env(TRUE, TRUE), v.s,
                           ParsingContext_set_field_values(Env(TRUE, TRUE), v.ctx))} :
                IF c.err # "ok"
                THEN /\ out' = [out EXCEPT ![run] =
                                  [@ EXCEPT !.status = c.err, !.pos = c.s.pos,
                                            !.raw = c.s.raw, !.ctx = c.ctx,
                                            !.values = ParsingContext_field_values(c.ctx)]]
                     /\ stream' = c.s
                     /\ context' = c.ctx
                     /\ Advance(FALSE)
                     /\ UNCHANGED <<idx, start_offset, offset, max_offset, inst, took>>
                ELSE /\ stream' = c.s
                     /\ context' = c.ctx
                     /\ \E t \in {BitStream_tell(c.s)} :
                          start_offset' = t.n /\ offset' = t.n /\ max_offset' = t.n
                     /\ idx' = 1
                     /\ pc' = "field"
                     /\ took' = NoBranches
                     /\ UNCHANGED <<run, inst, out>>
  /\ DrvFrame

ToStreamField ==
  /\ pc = "field" /\ run = "write"
  /\ \E r \in {Structure_to_stream_field(Env(TRUE, TRUE), idx, stream, context,
                                          start_offset, offset, max_offset)} :
         IF r.err # "ok" THEN Raise(r.err, r.s)
         ELSE /\ stream' = r.s
              /\ context' = r.ctx
              /\ offset' = r.offset
              /\ max_offset' = r.max_offset
              /\ took' = [took EXCEPT ![RunFields[idx].name] = r.branch]
              /\ idx' = idx + 1
              /\ pc' = IF idx = Len(RunFields) THEN "end" ELSE "field"
              /\ UNCHANGED <<run, start_offset, inst, out>>
  /\ DrvFrame

ToStreamEnd ==
  /\ pc = "end" /\ run = "write"
  /\ \E r \in {Structure_to_stream_finalize(stream, context, offset, max_offset)} :
         IF r.err # "ok" THEN Raise(r.err, r.s)
         ELSE /\ stream' = r.s
              /\ offset' = r.offset
              /\ max_offset' = r.max_offset
              /\ out' = [out EXCEPT ![run] =
                           [@ EXCEPT !.status = "ok", !.deref = "ok",
                                     !.values = ParsingContext_field_values(context),
                                     !.n = r.max_offset - start_offset,
                                     !.pos = r.s.pos, !.entry = start_offset,
                                     !.raw = r.s.raw, !.ctx = context, !.took = took]]
              /\ Advance(TRUE)
              /\ UNCHANGED <<context, idx, start_offset, inst, took>>
  /\ DrvFrame

DrvNext ==
  \/ FromStreamBegin
  \/ FromStreamField
  \/ FromStreamEnd
  \/ Deref
  \/ DerefDone
  \/ ToStreamBegin
  \/ ToStreamField
  \/ ToStreamEnd

(***************************************************************************)
(* The structure classes of the model.                                     *)
(***************************************************************************)
MaxStart == 1         \* the stream is entered at a position in 0..MaxStart
MaxPrefixBits == 7    \* longest BitField put in front of the BitField under test

Lazy(f) == [f EXCEPT !.lazy = TRUE]
At(f, o) == [f EXCEPT !.offset = o]
Skip(f, k) == [f EXCEPT !.skip = k]
Loose(f) == [f EXCEPT !.strict = FALSE]
Padded(f) == [f EXCEPT !.padding = <<0>>]
Term(f, handler) == [f EXCEPT !.terminator = <<0>>, !.terminator_handler = handler]
LengthOf(f, name) == [f EXCEPT !.length = None, !.lengthName = name]
Override(f) == [f EXCEPT !.override = "ident"]
Signed(f) == [f EXCEPT !.signed = TRUE]

\* the metaclass: every field gets the name of its attribute, then
\* initialize_fields runs
FieldName(i) == IF i = 1 THEN "f1" ELSE IF i = 2 THEN "f2" ELSE "f3"
StructureBase(fs, alignment) ==
  [fields |-> initialize_fields([i \in 1..Len(fs) |-> [fs[i] EXCEPT !.name = FieldName(i)]]),
   alignment |-> alignment, checks |-> "none"]

\* class Meta: checks = [lambda c: c.f1 == c.f2]
Checked(S) == [S EXCEPT !.checks = "equal"]

FL(n) == FixedLengthField(n)

\* two structures with a check, one of them with a lazy field
CheckLayouts ==
  { Checked(StructureBase(<<FL(1), FL(1)>>, None)),
    Checked(StructureBase(<<FL(1), Lazy(FL(1))>>, None)) }

\* structures whose length refers to a field that is declared later and is
\* not parsed ahead
ForwardLayouts ==
  { StructureBase(<<LengthOf(BytesField, "f2"), IntegerField(1)>>, None),
    StructureBase(<<LengthOf(BytesField, "f2"), Lazy(IntegerField(1))>>, None),
    StructureBase(<<FL(1), LengthOf(BytesField, "f3"), IntegerField(1)>>, None) }

ParseLayouts ==
  { StructureBase(<<FL(1), FL(2)>>, None),
    StructureBase(<<Padded(FL(2)), FL(1)>>, None),
    StructureBase(<<Loose(FL(2)), Loose(FL(1))>>, None),
    StructureBase(<<TerminatedField, FL(1)>>, None),
    StructureBase(<<Term(BytesField, "include"), Loose(TerminatedField)>>, None),
    StructureBase(<<Term(BytesField, "until"), FL(1)>>, None),
    StructureBase(<<Term(FL(2), "consume"), FL(1)>>, None),
    StructureBase(<<Loose(Term(FL(2), "include"))>>, None),
    StructureBase(<<FL(1), FL(-1)>>, None),
    StructureBase(<<At(FL(1), 1), At(FL(1), 0)>>, None),
    StructureBase(<<At(FL(1), 1), FL(1)>>, None),
    StructureBase(<<FL(1), At(FL(1), -1)>>, None),
    StructureBase(<<FL(1), Skip(FL(1), 1)>>, None),
    StructureBase(<<FL(1), FL(1)>>, 2),
    StructureBase(<<FL(1), Skip(FL(1), 0), FL(1)>>, 2),
    StructureBase(<<IntegerField(1), LengthOf(BytesField, "f1")>>, None),
    StructureBase(<<IntegerField(1), LengthOf(BytesField, "f1"), FL(1)>>, 2),
    StructureBase(<<Lazy(FL(1)), FL(1)>>, None),
    StructureBase(<<FL(1), Lazy(FL(1))>>, None),
    StructureBase(<<Lazy(FL(1)), Lazy(TerminatedField)>>, None),
    StructureBase(<<Lazy(TerminatedField), FL(1)>>, None),
    StructureBase(<<Lazy(FL(-1)), FL(1)>>, None),
    StructureBase(<<Lazy(FL(1)), FL(1)>>, 2),
    StructureBase(<<FL(1), Lazy(At(FL(1), 0))>>, None),
    StructureBase(<<Lazy(LengthOf(BytesField, "f3")), FL(1),
                    Lazy(At(IntegerField(1), 2))>>, None),
    StructureBase(<<Lazy(LengthOf(BytesField, "f3")), FL(1),
                    Lazy(At(IntegerField(1), -1))>>, None),
    StructureBase(<<LengthOf(BytesField, "f2"), Lazy(At(IntegerField(1), 1))>>, None),
    StructureBase(<<Lazy(IntegerField(1)), Lazy(LengthOf(BytesField, "f1")), FL(1)>>,
                  None),
    StructureBase(<<BitField(3, FALSE), BitField(5, FALSE), FL(1)>>, None),
    StructureBase(<<BitField(4, FALSE), FL(1)>>, None),
    StructureBase(<<BitField(7, TRUE), BitField(1, FALSE), BitField(8, TRUE)>>, None),
    StructureBase(<<BitField(4, FALSE), BitField(4, FALSE), FL(1)>>, 2),
    StructureBase(<<BitField(8, TRUE), BitField(8, FALSE)>>, 2) }
  \cup CheckLayouts \cup ForwardLayouts

\* a structure of two adjacent BitFields and the values of its attributes
BitLayouts ==
  { StructureBase(<<BitField(n1, r1), BitField(n2, r2)>>, None) :
      n1 \in 1..MaxPrefixBits, n2 \in 1..MaxBits, r1 \in BOOLEAN, r2 \in BOOLEAN }

\* a bytes field and the field that holds its length, with and without an
\* override declared on the length field
LengthPrefixed == StructureBase(<<IntegerField(1), LengthOf(BytesField, "f1")>>, None)
LengthOverridden ==
  StructureBase(<<Override(IntegerField(1)), LengthOf(BytesField, "f1")>>, None)
LengthLayouts == {LengthPrefixed, LengthOverridden}

\* IntegerField(1, encoder=lambda v: v + 1, decoder=lambda v: v - 1), alone
\* and with an override (lambda c, v: v)
Coded(f) == [f EXCEPT !.encoder = "inc", !.decoder = "dec"]
EncoderLayouts ==
  { StructureBase(<<Coded(IntegerField(1)), FL(1)>>, None),
    StructureBase(<<Override(Coded(IntegerField(1))), FL(1)>>, None) }

\* the values an attribute of field f is constructed with
AttributeValues(f, first) ==
  IF f.kind = "bit"
  THEN IF first THEN {VI(0), VI(1), VI(Pow2(f.length) - 1)}
       ELSE {VI(v) : v \in 0..(Pow2(f.length) - 1)}
  ELSE IF f.kind = "int" THEN {VNone} \cup {VI(v) : v \in 0..MaxByte}
  ELSE {VB(b) : b \in SeqsUpTo(0..MaxByte, MaxValueLen)}

DrvIdle ==
  /\ layout = StructureBase(<<FL(1)>>, None)
  /\ input = <<>> /\ start = 0 /\ run = "first" /\ pc = "done"
  /\ stream = BitStream_init(<<>>, 0)
  /\ context = EmptyContext
  /\ idx = 0 /\ start_offset = 0 /\ offset = 0 /\ max_offset = 0
  /\ inst = NoValues
  /\ out = [r \in Runs |-> NoOut]
  /\ took = NoBranches

\* S.from_stream(stream) on a stream holding the input
ParseInit ==
  /\ layout \in ParseLayouts
  /\ input \in SeqsUpTo(0..MaxByte, MaxInput)
  /\ start \in 0..MaxStart
  /\ run = "first"
  /\ inst = NoValues

\* S(f1=..., f2=...).to_stream(stream)
WriteInit ==
  /\ layout \in BitLayouts \cup LengthLayouts \cup CheckLayouts \cup EncoderLayouts
  /\ input = <<>>
  /\ start \in 0..MaxStart
  /\ run = "write"
  /\ \E v1 \in AttributeValues(layout.fields[1], TRUE),
        v2 \in AttributeValues(layout.fields[2], FALSE) :
       inst = [NoValues EXCEPT !["f1"] = v1, !["f2"] = v2]

DrvInit ==
  /\ ParseInit \/ WriteInit
  /\ pc = "begin"
  /\ stream = BitStream_init(<<>>, 0)
  /\ context = EmptyContext
  /\ idx = 0 /\ start_offset = 0 /\ offset = 0 /\ max_offset = 0
  /\ out = [r \in Runs |-> NoOut]
  /\ took = NoBranches

\* len(field) of BytesField, IntegerField and BitField: the literal length
\* when it is a non-negative int (for a BitField a number of bits)
BytesField_len(f) ==
  IF f.lengthName = "" /\ f.length # None /\ f.length >= 0
  THEN [n |-> f.length, err |-> "ok"]
  ELSE [n |-> 0, err |-> "ImpossibleToCalculateLengthError"]

\* sum((len(f) for f in cls._meta.fields))
RECURSIVE StructureBase_len_from(_, _)
StructureBase_len_from(fields, i) ==
  IF i > Len(fields) THEN [n |-> 0, err |-> "ok"]
  ELSE LET Rest(a, b) == IF b.err # "ok" THEN b ELSE [n |-> a.n + b.n, err |-> "ok"]
           First(a) == IF a.err # "ok" THEN a
                       ELSE Rest(a, StructureBase_len_from(fields, i + 1))
       IN  First(BytesField_len(fields[i]))

StructureBase_len(fields) == StructureBase_len_from(fields, 1)

(***************************************************************************)
(* Fields that wrap fields: ArrayField and StructureField.  The field is   *)
(* handed a stream r = [raw, pos, seekable] and reaches it through a       *)
(* Substream; a stream that is not seekable raises on tell and on seek.    *)
(* The element field of an array and the fields of the inner structure are *)
(* bytes fields with a literal length and no terminator or padding.        *)
(***************************************************************************)
WrappedField ==
  [kind |-> "plain", base_field |-> Field, count |-> None, length |-> None,
   until |-> "none", structure |-> <<>>]

\* a field that wraps nothing
Plain(f) == [WrappedField EXCEPT !.base_field = f]

ArrayField(base_field, count, length, until) ==
  [WrappedField EXCEPT !.kind = "array", !.base_field = base_field, !.count = count,
                       !.length = length, !.until = until]

StructureField(structure, length) ==
  [WrappedField EXCEPT !.kind = "structure", !.structure = structure,
                       !.length = length]

\* self.until(subcontext, res) for until=lambda c, v: v[:1] == b'\0'
Until(w, res) == w.until = "zero" /\ Len(res) > 0 /\ res[1] = 0

DestructifyErrors ==
  {"DefinitionError", "ImpossibleToCalculateLengthError", "ParseError",
   "StreamExhaustedError", "UnknownDependentFieldError", "MisalignedFieldError",
   "WriteError", "CheckError", "WrongMagicError"}

\* Field.with_name(name), up to the yield: the name is kept in old_name and
\* set unless it is None
Field_with_name_enter(f, name) ==
  [field |-> IF name # NameNone THEN [f EXCEPT !.name = name] ELSE f,
   old_name |-> f.name]

\* with_name that puts the old name back only when the body returned
Field_with_name_exit_on_return(f, old_name, exc) ==
  IF exc = "ok" THEN [f EXCEPT !.name = old_name] ELSE f

\* Field.with_name(name), the finally clause: runs when the body returned
\* (exc = "ok") and when it raised exc
Field_with_name_exit(f, old_name, exc) == [f EXCEPT !.name = old_name]

\* with _recapture(exc): an exception of the library passes, any other one
\* is raised as exc
recapture(err, exc) ==
  IF err = "ok" \/ err \in DestructifyErrors THEN err ELSE exc

\* stream.tell() of the stream handed to the field
Raw_tell(r) ==
  IF ~r.seekable THEN [n |-> 0, err |-> "OSError"] ELSE [n |-> r.pos, err |-> "ok"]

\* the result of a field operation on a Substream; hi is the end of the
\* highest byte of the raw stream read so far
ER(sub, r, value, n, hi, err) ==
  [sub |-> sub, r |-> r, value |-> value, n |-> n, hi |-> hi, err |-> err]

Highest(hi, d) == IF Len(d.data) > 0 THEN Max(hi, d.r.pos) ELSE hi

\* Field.seek_start on a Substream (no alignment: the field is not bound)
Field_seek_start_sub(f, sub, r) ==
  IF f.offset # None
  THEN IF f.offset < 0 THEN Substream_seek(sub, r, f.offset, SEEK_END)
       ELSE Substream_seek(sub, r, f.offset, SEEK_SET)
  ELSE IF f.skip # None THEN Substream_seek(sub, r, f.skip, SEEK_CUR)
  ELSE Substream_tell(sub, r)

\* BytesField._from_stream_fixed_length on a Substream
BytesField_from_stream_sub(f, sub, r, hi) ==
  LET Read(d) ==
        IF d.err # "ok" THEN ER(d.sub, d.r, <<>>, 0, hi, d.err)
        ELSE IF Len(d.data) < f.length /\ f.strict
        THEN ER(d.sub, d.r, <<>>, 0, Highest(hi, d), "StreamExhaustedError")
        ELSE ER(d.sub, d.r, d.data, Len(d.data), Highest(hi, d), "ok")
  IN  Read(Substream_read(sub, r, f.length))

\* BytesField._to_stream_fixed_length on a Substream
BytesField_to_stream_sub(f, sub, r, value) ==
  IF f.length < 0 THEN Substream_write(sub, r, value)
  ELSE IF Len(value) < f.length
  THEN IF f.strict THEN SRes(sub, r, 0, <<>>, "WriteError")
       ELSE Substream_write(sub, r, value)
  ELSE IF Len(value) > f.length
  THEN IF f.strict THEN SRes(sub, r, 0, <<>>, "WriteError")
       ELSE Substream_write(sub, r, Take(value, f.length))
  ELSE Substream_write(sub, r, value)

\* the state of the loop of a wrapping field: the Substream sub over the
\* stream r, the item or field i the loop is at, and what it gathered; keys
\* are the keys of subcontext.fields in ArrayField.from_stream
NoLoop ==
  [phase |-> "idle", err |-> "ok", field_start |-> 0, i |-> 0,
   sub |-> [start |-> 0, length |-> None, position |-> 0, tellable |-> TRUE],
   r |-> [raw |-> <<>>, pos |-> 0, seekable |-> TRUE],
   result |-> <<>>, total |-> 0, hi |-> 0, off |-> 0, max_off |-> 0, keys |-> {}]

\* the loop has ended: the field returns (result, total) or raises err
LoopEnded(it, r, result, total, hi, err) ==
  [it EXCEPT !.phase = "done", !.r = r, !.result = result, !.total = total,
             !.hi = hi, !.err = err]

\* the length of the array is a number of bytes that bounds its Substream
ArrayField_bounded(w) == w.count = None /\ w.length # None /\ w.length >= 0

\* ArrayField.from_stream up to its loop; told is stream.tell() and s is
\* Substream(stream)
ArrayField_from_stream_begin(w, r, told, s) ==
  IF told.err # "ok" THEN LoopEnded(NoLoop, r, <<>>, 0, r.pos, told.err)
  ELSE [NoLoop EXCEPT !.phase = "items", !.field_start = told.n, !.sub = s.sub,
                      !.r = s.r, !.hi = r.pos]

\* the tests at the top of the loop of ArrayField.from_stream that break
ArrayField_from_stream_break(w, it) ==
  IF w.count # None THEN w.count <= it.i
  ELSE w.length # None /\ w.length >= 0 /\ it.total >= w.length

\* except StreamExhaustedError that leaves the stream where the item left it
ArrayField_from_stream_exhausted_unrewound(w, it, e, rewound) ==
  IF w.length # None /\ w.length < 0
  THEN LoopEnded([it EXCEPT !.keys = @ \ {it.i}], e.r, it.result, it.total, e.hi, "ok")
  ELSE LoopEnded(it, e.r, it.result, it.total, e.hi, e.err)

\* except StreamExhaustedError: of an array with a negative length the item
\* is dropped and the loop ends, after stream.seek(field_start +
\* total_consumed), which is rewound; otherwise the error is raised again
ArrayField_from_stream_exhausted(w, it, e, rewound) ==
  IF w.length # None /\ w.length < 0
  THEN LoopEnded([it EXCEPT !.keys = @ \ {it.i}], rewound.r, it.result, it.total, e.hi,
                 rewound.err)
  ELSE LoopEnded(it, e.r, it.result, it.total, e.hi, e.err)

\* the loop of ArrayField.from_stream that goes on after until is true
ArrayField_from_stream_item_unstopped(w, it, e, rewound) ==
  LET entered == [it EXCEPT !.keys = @ \cup {it.i}]
  IN  IF e.err = "StreamExhaustedError"
      THEN ArrayField_from_stream_exhausted(w, entered, e, rewound)
      ELSE IF e.err # "ok"
      THEN LoopEnded(entered, e.r, it.result, it.total, e.hi, e.err)
      ELSE [entered EXCEPT !.i = @ + 1, !.sub = e.sub, !.r = e.r,
                           !.result = Append(@, e.value), !.total = @ + e.n,
                           !.hi = e.hi]

\* the rest of the loop of ArrayField.from_stream once item i, entered into
\* subcontext.fields, is decoded as e
ArrayField_from_stream_item(w, it, e, rewound) ==
  LET entered == [it EXCEPT !.keys = @ \cup {it.i}]
  IN  IF e.err = "StreamExhaustedError"
      THEN ArrayField_from_stream_exhausted(w, entered, e, rewound)
      ELSE IF e.err # "ok"
      THEN LoopEnded(entered, e.r, it.result, it.total, e.hi, e.err)
      ELSE IF Until(w, e.value)
      THEN LoopEnded(entered, e.r, Append(it.result, e.value), it.total + e.n, e.hi,
                     "ok")
      ELSE [entered EXCEPT !.i = @ + 1, !.sub = e.sub, !.r = e.r,
                           !.result = Append(@, e.value), !.total = @ + e.n,
                           !.hi = e.hi]

\* ArrayField.to_stream that does not compare len(value) with the count
ArrayField_to_stream_begin_uncounted(w, r, value, told, s) ==
  IF told.err # "ok" THEN LoopEnded(NoLoop, r, <<>>, 0, 0, told.err)
  ELSE [NoLoop EXCEPT !.phase = "values", !.field_start = told.n, !.i = 1,
                      !.sub = s.sub, !.r = s.r]

\* ArrayField.to_stream up to its loop
ArrayField_to_stream_begin(w, r, value, told, s) ==
  IF w.count # None /\ Len(value) # w.count
  THEN LoopEnded(NoLoop, r, <<>>, 0, 0, "WriteError")
  ELSE IF told.err # "ok" THEN LoopEnded(NoLoop, r, <<>>, 0, 0, told.err)
  ELSE [NoLoop EXCEPT !.phase = "values", !.field_start = told.n, !.i = 1,
                      !.sub = s.sub, !.r = s.r]

\* the rest of the loop of ArrayField.to_stream once item i is encoded as e
ArrayField_to_stream_item(w, it, e) ==
  IF e.err # "ok" THEN LoopEnded(it, e.r, <<>>, it.total, 0, e.err)
  ELSE [it EXCEPT !.i = @ + 1, !.sub = e.sub, !.r = e.r, !.total = @ + e.n]

\* the test that follows the loop of ArrayField.to_stream
ArrayField_to_stream_end(w, it) ==
  IF w.count = None /\ w.length # None /\ it.total < w.length
  THEN LoopEnded(it, it.r, <<>>, it.total, 0, "WriteError")
  ELSE LoopEnded(it, it.r, <<>>, it.total, 0, "ok")

\* StructureField.from_stream up to the loop of Structure.from_stream, which
\* wraps a BitStream around the Substream s: the BitStream holds no bits for
\* these fields and hands read, seek and tell to the Substream
StructureField_from_stream_begin(w, r, s, told) ==
  [NoLoop EXCEPT !.phase = "fields", !.field_start = told.n, !.i = 1, !.sub = told.sub,
                 !.r = told.r, !.hi = r.pos, !.off = told.n, !.max_off = told.n]

\* the loop of Structure.from_stream once field i is at k and decoded as e
Structure_from_stream_sub(it, k, e) ==
  IF e.err # "ok" THEN LoopEnded(it, e.r, it.result, 0, e.hi, e.err)
  ELSE [it EXCEPT !.i = @ + 1, !.sub = e.sub, !.r = e.r,
                  !.result = Append(@, e.value), !.hi = e.hi, !.off = k.n + e.n,
                  !.max_off = Max(k.n + e.n, @)]

\* StructureField.from_stream after the structure is parsed; filled is
\* stream.seek(length - consumed, io.SEEK_CUR)
StructureField_from_stream_end(w, it, filled) ==
  IF w.length # None /\ it.max_off - it.field_start < w.length
  THEN LoopEnded(it, filled.r, it.result, w.length, it.hi, filled.err)
  ELSE LoopEnded(it, it.r, it.result, it.max_off - it.field_start, it.hi, "ok")

\* len(x): the builtin refuses a negative __len__
builtin_len(l) ==
  IF l.err = "ok" /\ l.n < 0 THEN [n |-> 0, err |-> "ValueError"] ELSE l

ArrayField_len(w) ==
  LET Counted(b) == IF b.err # "ok" THEN b ELSE [n |-> w.count * b.n, err |-> "ok"]
  IN  IF w.count # None THEN Counted(builtin_len(BytesField_len(w.base_field)))
      ELSE IF w.length # None THEN [n |-> w.length, err |-> "ok"]
      ELSE [n |-> 0, err |-> "ImpossibleToCalculateLengthError"]

StructureField_len(w) ==
  IF w.length # None /\ w.length >= 0 THEN [n |-> w.length, err |-> "ok"]
  ELSE builtin_len(StructureBase_len(w.structure))

\* len(field)
WrappedField_len(w) ==
  IF w.kind = "array" THEN builtin_len(ArrayField_len(w))
  ELSE IF w.kind = "structure" THEN builtin_len(StructureField_len(w))
  ELSE builtin_len(BytesField_len(w.base_field))

(***************************************************************************)
(* A field called directly, the way the test cases of the field classes    *)
(* call it: field.from_stream(stream, context) on a stream holding data,   *)
(* field.to_stream(stream, value, context) on an empty stream and          *)
(* len(field).  The stream is entered at position start, and each call is  *)
(* made on a seekable stream and on one that is not.  A plain field is     *)
(* called on a seekable stream only.                                       *)
(***************************************************************************)
MaxCount == 2         \* largest count of an ArrayField
MaxLength == 2        \* largest length of an ArrayField and a StructureField
MaxItems == 3         \* longest value written through an ArrayField

NoRet ==
  [status |-> "none", value |-> VNone, items |-> <<>>, n |-> 0, pos |-> 0,
   raw |-> <<>>, hi |-> 0]

\* what the field returned or raised when its loop ended
Ret(it) ==
  [status |-> it.err, value |-> VNone, items |-> it.result, n |-> it.total,
   pos |-> it.r.pos, raw |-> it.r.raw, hi |-> it.hi]

\* the context of a field that is bound to no structure
NoEnv ==
  [fields |-> <<>>, alignment |-> None, checks |-> "none", open |-> TRUE,
   structure |-> FALSE, inst |-> NoValues]

ElementFields == {FL(1), FL(2)}
Untils == {"none", "zero"}

ArrayFields ==
  { ArrayField(b, c, None, u) :
      b \in ElementFields \cup {Loose(FL(1))}, c \in 0..MaxCount, u \in Untils }
  \cup { ArrayField(b, None, l, u) :
           b \in ElementFields, l \in -1..MaxLength, u \in Untils }
  \cup { ArrayField(b, None, None, "zero") : b \in ElementFields }

InnerStructures ==
  { <<FL(1)>>, <<FL(2)>>, <<FL(-1)>>, <<FL(1), FL(1)>>, <<FL(1), FL(-1)>>,
    <<At(FL(1), 1), At(FL(1), 0)>>, <<At(FL(1), -1)>> }

StructureFields ==
  { StructureField(s, l) : s \in InnerStructures, l \in {None} \cup 0..MaxLength }

LittleEndian(f) == [f EXCEPT !.byte_order = "little"]
BigEndian(f) == [f EXCEPT !.byte_order = "big"]

IntegerFields ==
  { IntegerField(1), Signed(IntegerField(1)), BigEndian(IntegerField(2)),
    Signed(LittleEndian(IntegerField(2))) }

\* values at and around the ends of the ranges of one and two bytes
IntegerValues ==
  { -32769, -32768, -129, -128, -1, 0, 1, 127, 128, 255, 256, 32767, 32768,
    65535, 65536 }

FixedLengthFields ==
  { FL(n) : n \in 0..MaxLength } \cup { Loose(FL(n)) : n \in 0..MaxLength }

\* fields whose length is no literal number of bytes
UnsizedFields ==
  { FL(-1), TerminatedField, Term(BytesField, "until"), LengthOf(BytesField, "f1"),
    BitField(3, FALSE) }

LenFields ==
  { Plain(f) : f \in FixedLengthFields \cup IntegerFields \cup UnsizedFields
               \cup {Term(FL(2), "consume")} }
  \cup ArrayFields
  \cup { ArrayField(b, c, None, "none") : b \in UnsizedFields, c \in 0..MaxCount }
  \cup StructureFields

FldIdle ==
  /\ fcall = [op |-> "none", field |-> WrappedField, data |-> <<>>, value |-> VNone,
              items |-> <<>>, start |-> 0]
  /\ fret = [sk \in BOOLEAN |-> NoRet]
  /\ floop = [sk \in BOOLEAN |-> NoLoop]

\* the elements a value written through an ArrayField is made of
ElementValues == {<<>>, <<1>>, <<1, 0>>}

FldInit ==
  /\ \/ \E w \in ArrayFields \cup StructureFields,
           data \in SeqsUpTo(0..MaxByte, MaxInput), at \in 0..MaxStart :
          fcall = [op |-> "from_stream", field |-> w, data |-> data, value |-> VNone,
                   items |-> <<>>, start |-> at]
     \/ \E w \in {a \in ArrayFields : a.until = "none"},
           items \in SeqsUpTo(ElementValues, MaxItems), at \in 0..MaxStart :
          fcall = [op |-> "to_stream", field |-> w, data |-> <<>>, value |-> VNone,
                   items |-> items, start |-> at]
     \/ \E f \in FixedLengthFields,
           b \in SeqsUpTo(0..MaxByte, MaxInput), at \in 0..MaxStart :
          fcall = [op |-> "to_stream", field |-> Plain(f), data |-> <<>>,
                   value |-> VB(b), items |-> <<>>, start |-> at]
     \/ \E f \in IntegerFields, i \in IntegerValues, at \in 0..MaxStart :
          fcall = [op |-> "to_stream", field |-> Plain(f), data |-> <<>>,
                   value |-> VI(i), items |-> <<>>, start |-> at]
     \/ \E w \in LenFields :
          fcall = [op |-> "len", field |-> w, data |-> <<>>, value |-> VNone,
                   items |-> <<>>, start |-> 0]
  /\ fret = [sk \in BOOLEAN |-> NoRet]
  /\ floop = [sk \in BOOLEAN |-> NoLoop]

FldFrame == UNCHANGED <<fcall, subVars, bitVars, drvVars, capVars, namVars>>

\* the stream the field is called on
Called(sk, raw) == [raw |-> raw, pos |-> fcall.start, seekable |-> sk]

\* the loop goes on as nx, or has ended and the call returns
Looped(sk, nx) ==
  /\ floop' = [floop EXCEPT ![sk] = nx]
  /\ fret' = IF nx.phase = "done" THEN [fret EXCEPT ![sk] = Ret(nx)] ELSE fret

\* field.from_stream(stream, context) of an ArrayField or StructureField
FromStream(sk) ==
  /\ fcall.op = "from_stream" /\ floop[sk].phase = "idle"
  /\ \E w \in {fcall.field}, r \in {Called(sk, fcall.data)} :
       IF w.kind = "array"
       THEN \E s \in {Substream_init(r, None, None)} :
              Looped(sk, ArrayField_from_stream_begin(w, r, Raw_tell(r), s))
       ELSE \E s \in {Substream_init(r, None, w.length)} :
            \E told \in {Substream_tell(s.sub, s.r)} :
              Looped(sk, StructureField_from_stream_begin(w, r, s, told))
  /\ FldFrame

\* one turn of the loop of ArrayField.from_stream
ArrayFromStreamStep(sk) ==
  /\ floop[sk].phase = "items"
  /\ \E w \in {fcall.field}, it \in {floop[sk]} :
       IF ArrayField_from_stream_break(w, it)
       THEN Looped(sk, LoopEnded(it, it.r, it.result, it.total, it.hi, "ok"))
       ELSE \E s \in {IF ArrayField_bounded(w)
                      THEN Substream_init(it.r, None,
                                          it.field_start + w.length - it.r.pos)
                      ELSE SRes(it.sub, it.r, 0, <<>>, "ok")} :
            \E k \in {Field_seek_start_sub(w.base_field, s.sub, s.r)} :
            \E d \in {IF k.err # "ok" THEN ER(k.sub, k.r, <<>>, 0, it.hi, k.err)
                      ELSE BytesField_from_stream_sub(w.base_field, k.sub, k.r,
                                                      it.hi)} :
            \E e \in {[d EXCEPT !.err = recapture(d.err, "ParseError")]} :
            \E rewound \in {Raw_seek(e.r, it.field_start + it.total, SEEK_SET)} :
              Looped(sk, ArrayField_from_stream_item(w, it, e, rewound))
  /\ FldFrame

\* one turn of the loop of Structure.from_stream under a StructureField
StructureFieldStep(sk) ==
  /\ floop[sk].phase = "fields"
  /\ \E w \in {fcall.field}, it \in {floop[sk]} :
       IF it.i > Len(w.structure)
       THEN \E filled \in {IF w.length = None THEN it
                           ELSE Raw_seek(it.r,
                                         w.length - (it.max_off - it.field_start),
                                         SEEK_CUR)} :
              Looped(sk, StructureField_from_stream_end(w, it, filled))
       ELSE \E k \in {Field_seek_start_sub(w.structure[it.i], it.sub, it.r)} :
            \E e \in {IF k.err # "ok" THEN ER(k.sub, k.r, <<>>, 0, it.hi, k.err)
                      ELSE BytesField_from_stream_sub(w.structure[it.i], k.sub, k.r,
                                                      it.hi)} :
              Looped(sk, Structure_from_stream_sub(it, k, e))
  /\ FldFrame

\* field.to_stream(stream, value, context) of an ArrayField
ToStream(sk) ==
  /\ fcall.op = "to_stream" /\ fcall.field.kind = "array" /\ floop[sk].phase = "idle"
  /\ \E w \in {fcall.field}, r \in {Called(sk, Zeros(fcall.start))} :
     \E s \in {Substream_init(r, None, None)} :
       Looped(sk, ArrayField_to_stream_begin(w, r, fcall.items, Raw_tell(r), s))
  /\ FldFrame

\* one turn of the loop of ArrayField.to_stream
ArrayToStreamStep(sk) ==
  /\ floop[sk].phase = "values"
  /\ \E w \in {fcall.field}, it \in {floop[sk]} :
       IF it.i > Len(fcall.items)
       THEN Looped(sk, ArrayField_to_stream_end(w, it))
       ELSE \E s \in {IF ArrayField_bounded(w)
                      THEN Substream_init(it.r, None,
                                          it.field_start + w.length - it.r.pos)
                      ELSE SRes(it.sub, it.r, 0, <<>>, "ok")} :
            \E k \in {Field_seek_start_sub(w.base_field, s.sub, s.r)} :
            \E d \in {IF k.err # "ok" THEN k
                      ELSE BytesField_to_stream_sub(w.base_field, k.sub, k.r,
                                                    fcall.items[it.i])} :
            \E e \in {[d EXCEPT !.err = recapture(d.err, "WriteError")]} :
              Looped(sk, ArrayField_to_stream_item(w, it, e))
  /\ FldFrame

\* field.to_stream(stream, value, context) of a BytesField or IntegerField
ToStreamPlain ==
  /\ fcall.op = "to_stream" /\ fcall.field.kind = "plain"
  /\ fret[TRUE].status = "none"
  /\ UNCHANGED floop
  /\ \E a \in {Field_to_stream(NoEnv, fcall.field.base_field,
                               BitStream_init(Zeros(fcall.start), fcall.start),
                               fcall.value, EmptyContext)} :
       fret' = [fret EXCEPT ![TRUE] =
                  [status |-> a.err, value |-> VNone, items |-> <<>>, n |-> a.n,
                   pos |-> a.s.pos, raw |-> a.s.raw, hi |-> 0]]
  /\ FldFrame

\* len(field)
FieldLen ==
  /\ fcall.op = "len" /\ fret[TRUE].status = "none"
  /\ UNCHANGED floop
  /\ \E l \in {WrappedField_len(fcall.field)} :
       fret' = [fret EXCEPT ![TRUE] = [NoRet EXCEPT !.status = l.err, !.n = l.n]]
  /\ FldFrame

FldNext ==
  \/ \E sk \in BOOLEAN : FromStream(sk)
  \/ \E sk \in BOOLEAN : ArrayFromStreamStep(sk)
  \/ \E sk \in BOOLEAN : StructureFieldStep(sk)
  \/ \E sk \in BOOLEAN : ToStream(sk)
  \/ \E sk \in BOOLEAN : ArrayToStreamStep(sk)
  \/ ToStreamPlain
  \/ FieldLen

(***************************************************************************)
(* ArrayField.from_stream followed turn by turn, with elements that can    *)
(* be decoded without consuming a byte: a field that is not strict reads   *)
(* b'' at the end of the stream, a field of length 0 reads b'' anywhere.   *)
(* The interpreter runs the loop for as long as it has a turn to take;     *)
(* the model follows MaxTurns turns of it.                                 *)
(***************************************************************************)
MaxTurns == 5         \* turns of the loop of one call that are followed

ZeroElements == {Loose(FL(1)), FL(0)}

TurnElements == {FL(1)} \cup ZeroElements

TurnArrays ==
  { ArrayField(b, c, None, u) : b \in TurnElements, c \in 0..MaxCount, u \in Untils }
  \cup { ArrayField(b, None, l, u) :
           b \in TurnElements, l \in -1..MaxLength, u \in Untils }
  \cup { ArrayField(b, None, None, "zero") : b \in TurnElements }

ArrInit ==
  /\ \E w \in TurnArrays, data \in SeqsUpTo(0..MaxByte, MaxInput), at \in 0..MaxStart :
       fcall = [op |-> "from_stream", field |-> w, data |-> data, value |-> VNone,
                items |-> <<>>, start |-> at]
  /\ fret = [sk \in BOOLEAN |-> NoRet]
  /\ floop = [sk \in BOOLEAN |-> NoLoop]

ArrayTurn(sk) ==
  /\ floop[sk].i < MaxTurns
  /\ ArrayFromStreamStep(sk)

ArrNext ==
  \/ \E sk \in BOOLEAN : FromStream(sk)
  \/ \E sk \in BOOLEAN : ArrayTurn(sk)

(***************************************************************************)
(* A CaptureStream used directly: reads, writes, seeks and cache_read_last *)
(* calls follow each other in any order.  clast.fresh are the bytes of the *)
(* last read or write, clast.asked says that every cache_read_last so far  *)
(* came after a read or write, with no seek in between, and asked for as   *)
(* many bytes as that call had moved.                                      *)
(***************************************************************************)
MaxCapStart == 1      \* the raw stream is at 0..MaxCapStart when it is wrapped
MaxCapCount == 3      \* largest count handed to cache_read_last
MaxCapOps == 6        \* calls made on the CaptureStream
CapOffsets == 0..MaxRawLen

CapIdle ==
  /\ cs = CaptureStream_cache_reset([raw |-> <<>>, pos |-> 0, seekable |-> TRUE])
  /\ clast = [op |-> "init"]
  /\ cseen = <<>>

CapInit ==
  \E seekable \in BOOLEAN, at \in 0..MaxCapStart :
    /\ cs = CaptureStream_cache_reset([raw |-> RawImage, pos |-> at, seekable |-> seekable])
    /\ clast = [op |-> "init", n |-> 0, data |-> <<>>, err |-> "ok", a1 |-> 0,
                base |-> IF seekable THEN 0 ELSE at, fresh |-> <<>>, moved |-> FALSE,
                asked |-> TRUE, again |-> 0, calls |-> 0]
    /\ cseen = [o \in CapOffsets |-> None]

\* the bytes data, moved at raw offset at, are the last seen at their offsets
Seen(at, data) ==
  [o \in CapOffsets |->
     IF at <= o /\ o < at + Len(data) THEN data[o - at + 1] ELSE cseen[o]]

CapApply(op, res, a1) ==
  /\ clast.calls < MaxCapOps
  /\ res.c.r.pos <= MaxRawLen /\ Len(res.c.r.raw) <= MaxRawLen + 1
  /\ cs' = res.c
  /\ clast' = [clast EXCEPT !.op = op, !.n = res.n, !.data = res.data, !.err = res.err,
                            !.a1 = a1,
                            !.fresh = IF op \in {"read", "write"} THEN res.data ELSE @,
                            !.moved = IF op = "cache_read_last" THEN @
                                      ELSE op \in {"read", "write"},
                            !.asked = IF op = "cache_read_last"
                                      THEN @ /\ clast.moved /\ a1 = Len(clast.fresh)
                                      ELSE @,
                            !.again = IF op = "cache_read_last" THEN Min(2, @ + 1) ELSE 0,
                            !.calls = @ + 1]
  /\ cseen' = IF op \in {"read", "write"} THEN Seen(cs.r.pos, res.data) ELSE cseen
  /\ UNCHANGED <<subVars, bitVars, drvVars, fldVars, namVars>>

CapRead(size) == CapApply("read", CaptureStream_read(cs, size), size)

CapWrite(b) == CapApply("write", CaptureStream_write(cs, b), Len(b))

CapSeek(off, whence) == CapApply("seek", CaptureStream_seek(cs, off, whence), off)

CapReadLast(count) ==
  CapApply("cache_read_last", CaptureStream_cache_read_last(cs, count), count)

CapNext ==
  \/ \E size \in -1..MaxSeek : CapRead(size)
  \/ \E b \in {<<WriteByte>>, <<WriteByte, WriteByte>>} : CapWrite(b)
  \/ \E off \in -1..MaxSeek, whence \in {SEEK_SET, SEEK_CUR, SEEK_END} :
       CapSeek(off, whence)
  \/ \E count \in 0..MaxCapCount : CapReadLast(count)

(***************************************************************************)
(* Two callers use one field descriptor under a name of their own: the     *)
(* item loops of ArrayField.from_stream and ArrayField.to_stream, which    *)
(* give their base_field the name i while item i is decoded or encoded,    *)
(* and a plain 'with field.with_name(n):' block.  A caller is at "loop"    *)
(* (the head of the item loop), "inside" (the name is set, the body has    *)
(* not run), "leaving" (the body returned or raised par[p].exc) or "done". *)
(* The callers take their steps in any order, as two threads do.           *)
(* par[p].own says that every body of p found the name p had given,        *)
(* par[p].overlapped that the other caller was under way at some time      *)
(* while p was.                                                            *)
(***************************************************************************)
Callers == {1, 2}
MaxElements == 2      \* largest count, data and value of an array call
BaseName == "base"    \* the name of the descriptor before any call

NamCall(op, s, count, value, arg) ==
  [op |-> op, pc |-> "idle", s |-> s, count |-> count, value |-> value, arg |-> arg,
   i |-> 0, old_name |-> "", exc |-> "ok", status |-> "none", before |-> "",
   after |-> "", own |-> TRUE, overlapped |-> FALSE, result |-> <<>>, total |-> 0]

NamCalls ==
  {NamCall("from_stream", BitStream_init([k \in 1..n |-> 1], 0), count, <<>>, NameNone) :
     n \in 0..MaxElements, count \in (0..MaxElements) \cup {None}}
  \cup {NamCall("to_stream", BitStream_init(<<>>, 0), None, value, NameNone) :
     value \in SeqsUpTo({<<1>>, <<1, 0>>}, MaxElements)}
  \cup {NamCall("with_name", BitStream_init(<<>>, 0), None, <<>>, arg) :
     arg \in {NameNone, "foo"}}

NamIdle ==
  /\ shared = FixedLengthField(1)
  /\ par = [p \in Callers |-> NamCall("none", BitStream_init(<<>>, 0), None, <<>>, NameNone)]

NamInit ==
  /\ shared = [FixedLengthField(1) EXCEPT !.name = BaseName]
  /\ par \in [Callers -> NamCalls]

Active(c) == c.pc \in {"loop", "inside", "leaving"}

NamFrame == UNCHANGED <<subVars, bitVars, drvVars, fldVars, capVars>>

\* the call of p ends with status
Ended(c, status, name) == [c EXCEPT !.pc = "done", !.status = status, !.after = name]

\* caller p makes its call
NameCall(p) ==
  /\ par[p].pc = "idle"
  /\ par' = [q \in Callers |->
              IF q = p
              THEN [par[p] EXCEPT !.pc = "loop", !.before = shared.name,
                                  !.overlapped = \E o \in Callers \ {p} : Active(par[o])]
              ELSE [par[q] EXCEPT !.overlapped = @ \/ Active(par[q])]]
  /\ UNCHANGED shared
  /\ NamFrame

\* the head of the item loop, and with_name up to its yield
NameEnter(p) ==
  LET c == par[p]
      more == IF c.op = "from_stream" THEN c.count = None \/ c.i < c.count
              ELSE IF c.op = "to_stream" THEN c.i < Len(c.value)
              ELSE c.i = 0
      w == Field_with_name_enter(shared, IF c.op = "with_name" THEN c.arg ELSE IndexName(c.i))
  IN  /\ c.pc = "loop"
      /\ IF more
         THEN /\ shared' = w.field
              /\ par' = [par EXCEPT ![p] = [c EXCEPT !.pc = "inside", !.old_name = w.old_name]]
         ELSE /\ par' = [par EXCEPT ![p] = Ended(c, "ok", shared.name)]
              /\ UNCHANGED shared
      /\ NamFrame

\* the body of the with block: item i is decoded or encoded by the
\* descriptor as it is now
NameBody(p) ==
  LET c == par[p]
      Done(e, res) ==
        [c EXCEPT !.pc = "leaving", !.s = e.s, !.exc = e.err,
                  !.own = @ /\ shared.name = (IF c.op = "with_name" /\ c.arg = NameNone
                                               THEN c.old_name
                                               ELSE IF c.op = "with_name" THEN c.arg
                                               ELSE IndexName(c.i)),
                  !.result = IF e.err = "ok" THEN Append(@, res) ELSE @,
                  !.total = IF e.err = "ok" THEN @ + e.n ELSE @]
  IN  /\ c.pc = "inside"
      /\ \E e \in IF c.op = "from_stream"
                  THEN {BytesField_from_stream(NoEnv, shared, c.s, EmptyContext)}
                  ELSE IF c.op = "to_stream"
                  THEN {BytesField_to_stream(NoEnv, shared, c.s, VB(c.value[c.i + 1]),
                                             EmptyContext)}
                  ELSE {FR(c.s, EmptyContext, VNone, 0, err) : err \in {"ok", "Exception"}} :
           par' = [par EXCEPT ![p] =
                     Done([e EXCEPT !.err = IF c.op = "from_stream"
                                            THEN recapture(e.err, "ParseError")
                                            ELSE IF c.op = "to_stream"
                                            THEN recapture(e.err, "WriteError")
                                            ELSE e.err],
                          e.value.b)]
      /\ UNCHANGED shared
      /\ NamFrame

\* the with block is left: the finally clause of with_name, then what the
\* caller does with the outcome of the body
NameLeave(p) ==
  LET c == par[p]
      f == Field_with_name_exit(shared, c.old_name, c.exc)
  IN  /\ c.pc = "leaving"
      /\ shared' = f
      /\ par' = [par EXCEPT ![p] =
                   IF c.exc = "ok"
                   THEN IF c.op = "with_name" THEN Ended(c, "ok", f.name)
                        ELSE [c EXCEPT !.pc = "loop", !.i = @ + 1]
                   ELSE IF c.op = "from_stream" /\ c.exc = "StreamExhaustedError"
                           /\ c.count = None
                   THEN Ended([c EXCEPT !.s = BitStream_seek(c.s, c.total, SEEK_SET).s],
                              "ok", f.name)
                   ELSE Ended(c, c.exc, f.name)]
      /\ NamFrame

NamNext ==
  \/ \E p \in Callers : NameCall(p)
  \/ \E p \in Callers : NameEnter(p)
  \/ \E p \in Callers : NameBody(p)
  \/ \E p \in Callers : NameLeave(p)

Init == DrvInit /\ SubIdle /\ BitIdle /\ FldIdle /\ CapIdle /\ NamIdle
InitSub == SubInit /\ BitIdle /\ DrvIdle /\ FldIdle /\ CapIdle /\ NamIdle
InitBit == BitInit /\ SubIdle /\ DrvIdle /\ FldIdle /\ CapIdle /\ NamIdle
InitFld == FldInit /\ SubIdle /\ BitIdle /\ DrvIdle /\ CapIdle /\ NamIdle
InitCap == CapInit /\ SubIdle /\ BitIdle /\ DrvIdle /\ FldIdle /\ NamIdle
InitNam == NamInit /\ SubIdle /\ BitIdle /\ DrvIdle /\ FldIdle /\ CapIdle
InitArr == ArrInit /\ SubIdle /\ BitIdle /\ DrvIdle /\ CapIdle /\ NamIdle

Spec == Init /\ [][DrvNext]_vars
SpecSub == InitSub /\ [][SubNext]_vars
SpecTwoSub == InitSub /\ [][TwoSubNext]_vars
SpecBit == InitBit /\ [][BitNext]_vars
SpecFld == InitFld /\ [][FldNext]_vars
SpecCap == InitCap /\ [][CapNext]_vars
SpecNam == InitNam /\ [][NamNext]_vars

\* the loop of a call goes on while it has a turn to take
SpecArr == InitArr /\ [][ArrNext]_vars /\ WF_vars(ArrNext)

(***************************************************************************)
(* Properties of the stream adapters.                                      *)
(***************************************************************************)
\* C3: on a Substream of bounded length L, every position returned by tell()
\* or seek() lies in [0, L], whatever calls were made on it and wherever other
\* users moved the shared raw cursor.
C3_PositionInBounds ==
  (slast.op \in {"tell", "seek"} /\ slast.err = "ok" /\ subs[slast.who].length # None)
    => (0 <= slast.n /\ slast.n <= subs[slast.who].length)

\* a tell() answered at the upper bound although the raw cursor was beyond it
C3_Witness ==
  /\ slast.op = "tell" /\ slast.err = "ok"
  /\ subs[slast.who].length # None
  /\ slast.rawBefore > subs[slast.who].start + subs[slast.who].length
  /\ slast.n = subs[slast.who].length

\* the offset of the raw stream a Substream reads at when the raw cursor is at pos
ClampedRawOffset(sub, pos) ==
  IF pos < sub.start THEN sub.start
  ELSE IF sub.length # None /\ pos > sub.start + sub.length THEN sub.start + sub.length
  ELSE pos

\* C4 as stated: a read on a Substream over a seekable raw stream returns the
\* bytes at raw offset start + p, p being the position its own previous
\* operation left, whatever was done on the other Substream in between.
C4_IndependentPositions ==
  (slast.op = "read" /\ slast.err = "ok" /\ slast.n > 0 /\ sraw.seekable)
    => slast.at = subs[slast.who].start + slast.p

\* C4 amended: the read happens at the shared raw cursor, clamped into the
\* view: the position is taken from the raw stream, not kept per Substream; it
\* is start + p when the raw cursor still is where the Substream left it.
C4_ReadsAtRawCursor ==
  (slast.op = "read" /\ slast.err = "ok" /\ sraw.seekable)
    => /\ slast.at = ClampedRawOffset(subs[slast.who], slast.rawBefore)
       /\ subs[slast.who].position = slast.at - subs[slast.who].start + slast.n
       /\ (slast.rawBefore = subs[slast.who].start + slast.p
             /\ ClampedRawOffset(subs[slast.who], slast.rawBefore) = slast.rawBefore)
            => slast.at = subs[slast.who].start + slast.p

\* a read that returned bytes from another offset than the Substream's own
\* position, the cursor having been moved through the other view
C4_Witness ==
  /\ slast.op = "read" /\ slast.err = "ok" /\ slast.n > 0 /\ sraw.seekable
  /\ slast.at # subs[slast.who].start + slast.p

\* C5: with 1 to 7 pending bits, read, write, seek and flush raise
\* MisalignedFieldError and change neither the pending bits nor the raw stream;
\* with an empty buffer they do on the raw stream what BytesIO does.  The
\* buffer never holds more than 7 bits between calls.
C5_ByteOpsNeedAlignment ==
  /\ Len(bs.bits) <= 7
  /\ (blast.op \in ByteOps /\ Len(blast.pre.bits) > 0)
       => (blast.err = "MisalignedFieldError" /\ bs = blast.pre)
  /\ (blast.op \in ByteOps /\ Len(blast.pre.bits) = 0)
       => /\ blast.err # "MisalignedFieldError"
          /\ bs.bits = <<>>
          /\ blast.op = "read" =>
               /\ blast.data = BytesIO_read(blast.pre.raw, blast.pre.pos, blast.a1)
               /\ bs.pos = blast.pre.pos + Len(blast.data) /\ bs.raw = blast.pre.raw
          /\ blast.op = "write" =>
               /\ bs.raw = BytesIO_write(blast.pre.raw, blast.pre.pos, <<blast.a1>>)
               /\ bs.pos = blast.pre.pos + 1
          /\ (blast.op = "seek" /\ blast.err = "ok") =>
               /\ bs.pos = BytesIO_seek(blast.pre.raw, blast.pre.pos, blast.a1, blast.a2).pos
               /\ blast.n = bs.pos /\ bs.raw = blast.pre.raw
          /\ blast.op = "flush" => bs = blast.pre

\* a seek refused with pending bits left by two bit reads
C5_Witness ==
  /\ blast.op = "seek" /\ blast.err = "MisalignedFieldError"
  /\ Len(blast.pre.bits) \in 1..7
  /\ blast.pre.pos > 0 /\ blast.count = 3

(***************************************************************************)
(* Properties of the Structure driver.                                     *)
(***************************************************************************)
\* the fields call r uses, and what a call left behind
FieldsOf(r) ==
  IF r = "eager"
  THEN [i \in 1..Len(layout.fields) |-> [layout.fields[i] EXCEPT !.lazy = FALSE]]
  ELSE layout.fields
Returned(r) == out[r].status = "ok"
Complete(r) == out[r].status = "ok" /\ out[r].deref = "ok"
Finished(r) == out[r].status \notin {"none", "ok"} \/ out[r].deref # "none"

\* C1: for every input b that from_bytes accepts, with v = from_bytes(b),
\* v.to_bytes() succeeds and from_bytes of the bytes written equals v (v
\* being an instance whose attributes all dereference).
C1_RoundTrip ==
  (pc = "done" /\ start = 0 /\ Complete("first")) =>
    /\ Returned("write")
    /\ Complete("second")
    /\ out["second"].values = out["first"].values

\* C2 as stated: when from_stream or to_stream returns n, the stream is n
\* bytes after the position it had on entry, for every layout.
C2_CursorAccounting ==
  \A r \in Runs : Returned(r) => out[r].pos = out[r].entry + out[r].n

\* C2 amended: the same, for the layouts in which no field declares an
\* offset and no field is lazy.
Sequential(fields) ==
  \A i \in 1..Len(fields) : fields[i].offset = None /\ ~fields[i].lazy

C2_CursorAccountingSequential ==
  \A r \in Runs :
    (Returned(r) /\ Sequential(FieldsOf(r))) => out[r].pos = out[r].entry + out[r].n

\* a structure with a skip and an alignment was parsed, written and parsed
\* again, three bytes each time
C2_Witness ==
  /\ pc = "done"
  /\ layout = StructureBase(<<FL(1), Skip(FL(1), 0), FL(1)>>, 2)
  /\ Returned("write") /\ out["write"].n = 3 /\ out["write"].pos = 3
  /\ Returned("second") /\ out["second"].n = 3 /\ out["second"].pos = 3

\* C6: two adjacent BitFields of n1 and n2 bits, with or without realign,
\* are written with values v1 < 2^n1 and v2 < 2^n2; to_stream succeeds and
\* from_stream on the bytes written returns v1 and v2, wherever the second
\* field starts in its byte and whether or not it spans a byte boundary.
Encoded == out["first"].status = "none" /\ out["write"].status # "none"

C6_BitRoundTrip ==
  (pc = "done" /\ layout \in BitLayouts /\ Encoded) =>
    /\ Returned("write")
    /\ Complete("second")
    /\ out["second"].values = out["write"].values

\* a 4-bit field written after a 7-bit field without realign spans the first
\* two bytes and is read back
C6_Witness ==
  /\ pc = "done" /\ layout \in BitLayouts /\ Encoded
  /\ layout.fields[1].length = 7 /\ ~layout.fields[1].realign
  /\ layout.fields[2].length = 4
  /\ out["write"].values["f1"] = VI(127) /\ out["write"].values["f2"] = VI(9)
  /\ out["write"].n = 2
  /\ Complete("second") /\ out["second"].values["f2"] = VI(9)

\* C7: in a structure with alignment A, while from_stream or to_stream runs,
\* every field that was started has an offset relative to the structure
\* start that is a multiple of A, unless it declares offset or skip or it is
\* a BitField after a BitField without realign; such a BitField starts
\* where the previous one ended.
Exempt(fields, i) ==
  \/ fields[i].offset # None
  \/ fields[i].skip # None
  \/ fields[i].kind = "bit" /\ i > 1 /\ fields[i - 1].kind = "bit"
     /\ ~fields[i - 1].realign

C7_Alignment ==
  (layout.alignment # None /\ pc \in {"field", "end"}) =>
    \A i \in 1..Len(RunFields) :
      took[RunFields[i].name] # "none" =>
        IF ~Exempt(RunFields, i)
        THEN (context[RunFields[i].name].offset - start_offset) % layout.alignment = 0
        ELSE (RunFields[i].kind = "bit" /\ RunFields[i].offset = None
              /\ RunFields[i].skip = None) =>
               context[RunFields[i].name].offset =
                 context[RunFields[i - 1].name].offset
                 + context[RunFields[i - 1].name].length

\* C7 for the structures without a lazy field
C7_AlignmentEager ==
  (\A i \in 1..Len(RunFields) : ~RunFields[i].lazy) => C7_Alignment

\* C8: an instance of a structure with a length field f1 and a bytes field
\* f2 declared with length='f1' is encoded.  When f1 declares no override,
\* to_stream succeeds and writes len(f2) for f1, followed by f2, whatever
\* was assigned to f1.  When f1 declares an override (lambda c, v: v), that
\* override is kept: the value assigned is the value written, and with f1
\* unset to_stream fails.
ToStreamReturned ==
  /\ out["first"].status = "none"
  /\ (run = "second" /\ pc = "begin") \/ (pc = "done" /\ ~Returned("write"))

C8_LengthPrefix ==
  ToStreamReturned =>
    /\ layout = LengthPrefixed =>
         /\ Returned("write")
         /\ out["write"].values["f1"] = VI(Len(inst["f2"].b))
         /\ out["write"].raw = Zeros(start) \o <<Len(inst["f2"].b)>> \o inst["f2"].b
    /\ layout = LengthOverridden =>
         /\ layout.fields[1].override = "ident"
         /\ inst["f1"] = VNone => ~Returned("write")
         /\ Returned("write") => out["write"].values["f1"] = inst["f1"]

\* f1 was left unset, f2 = b'\x01\x02': the bytes written are 02 01 02
C8_Witness ==
  /\ ToStreamReturned /\ layout = LengthPrefixed /\ start = 0
  /\ inst["f1"] = VNone /\ inst["f2"] = VB(<<1, 2>>)
  /\ Returned("write") /\ out["write"].raw = <<2, 1, 2>>

\* C9: for a structure in which no field refers to a later field, decoding
\* an input with the lazy fields as declared and dereferencing every
\* attribute succeeds exactly when decoding the same input with no lazy
\* field succeeds, and gives the same values.
NoForwardReference(fields) ==
  \A i \in 1..Len(fields) :
    fields[i].lengthName # "" =>
      \E j \in 1..(i - 1) : fields[j].name = fields[i].lengthName

C9_LazyEquivalence ==
  (Finished("eager") /\ NoForwardReference(layout.fields)) =>
    /\ Complete("first") <=> Complete("eager")
    /\ Complete("first") => out["first"].values = out["eager"].values

\* C10.  Field j is lazy with a literal offset and the length of an earlier
\* field names it.  PreparseReference is field j decoded on its own at its
\* offset in the input.
Referenced(fields, j) == \E i \in 1..(j - 1) : fields[i].lengthName = fields[j].name

PreparseReference(j) ==
  LET E == [fields |-> layout.fields, alignment |-> layout.alignment, open |-> TRUE,
            structure |-> FALSE, inst |-> NoValues]
      Here(k) == [k |-> k, d |-> Field_from_stream(E, layout.fields[j], k.s, EmptyContext)]
  IN  Here(Field_seek_start(E, layout.fields[j], BitStream_init(input, start), 0))

PreparseHolds(j) ==
  LET f == layout.fields[j]
      rec == out["first"].ctx[f.name]
      AsDecoded(ref) ==
        /\ rec.has /\ ~rec.lazy
        /\ rec.value = ref.d.value
        /\ rec.offset = ref.k.n
        /\ rec.length = ref.d.n
        /\ \A i \in 1..(j - 1) :
             layout.fields[i].lengthName = f.name =>
               out["first"].ctx[layout.fields[i].name].length = ref.d.value.i
  IN  /\ out["first"].status # "UnknownDependentFieldError"
      /\ Returned("first") =>
           /\ out["first"].took[f.name] = "resolved"
           /\ AsDecoded(PreparseReference(j))

\* C10 as stated: for every literal integer offset, the earlier field finds
\* f's value (no UnknownDependentFieldError), and when from_stream returns,
\* f's record holds the value, the offset and the length that decoding f at
\* its own position gives, f having been skipped over by the sequential
\* pass instead of decoded again.
C10_Preparse ==
  \A j \in 1..Len(layout.fields) :
    (preparsable(layout.fields[j]) /\ Referenced(layout.fields, j)) =>
      PreparseHolds(j)

\* C10 for the literal offsets that are not negative
C10_PreparseNonNegative ==
  \A j \in 1..Len(layout.fields) :
    (preparsable(layout.fields[j]) /\ layout.fields[j].offset >= 0
     /\ Referenced(layout.fields, j)) =>
      PreparseHolds(j)

\* the length of the lazy f1 is read from f3 at offset 2 before f2 and f3
\* are reached
C10_Witness ==
  /\ layout = StructureBase(<<Lazy(LengthOf(BytesField, "f3")), FL(1),
                              Lazy(At(IntegerField(1), 2))>>, None)
  /\ input = <<0, 0, 1>> /\ start = 0
  /\ Returned("first")
  /\ out["first"].took["f3"] = "resolved"
  /\ out["first"].ctx["f3"].value = VI(1) /\ out["first"].ctx["f3"].offset = 2
  /\ out["first"].ctx["f1"].length = 1

(***************************************************************************)
(* Checks.                                                                 *)
(***************************************************************************)
HasChecks == layout.checks # "none"

\* every field of the class has a record in the context
AllDecoded(ctx) == \A i \in 1..Len(layout.fields) : ctx[layout.fields[i].name].has

\* C11: the checks of from_stream run when every field is decoded and the
\* initial values are taken: a check that fails raises CheckError and no
\* instance is returned, and a from_stream that returns has checks that
\* hold; the checks of to_stream run on the final values before the first
\* field is written: a check that fails raises CheckError with no byte
\* written, and a to_stream that writes has checks that hold.
C11_Checks ==
  HasChecks =>
    /\ \A r \in ParseRuns :
         /\ out[r].status = "CheckError" =>
              /\ AllDecoded(out[r].ctx)
              /\ out[r].ctx["f1"].value # out[r].ctx["f2"].value
              /\ out[r].values = NoValues
              /\ out[r].deref = "none"
         /\ out[r].status = "ok" =>
              /\ AllDecoded(out[r].ctx)
              /\ out[r].ctx["f1"].value = out[r].ctx["f2"].value
    /\ out["write"].status = "CheckError" =>
         /\ out["write"].values["f1"] # out["write"].values["f2"]
         /\ out["write"].raw = Zeros(start)
         /\ out["write"].pos = start
    /\ (run = "write" /\ pc = "field") => context["f1"].value = context["f2"].value
    /\ out["write"].status = "ok" =>
         out["write"].values["f1"] = out["write"].values["f2"]

\* a from_stream whose fields were all decoded raised CheckError
C11_Witness ==
  /\ HasChecks
  /\ out["first"].status = "CheckError"
  /\ AllDecoded(out["first"].ctx)
  /\ Len(input) >= 2

(***************************************************************************)
(* Lengths.                                                                *)
(***************************************************************************)
\* C12: when len(S) is defined, v.to_bytes() has len(S) bytes for every
\* instance v of S that to_bytes encodes without error, structures of
\* BitFields included.
C12_Length ==
  (/\ out["write"].status = "ok"
   /\ start = 0
   /\ StructureBase_len(layout.fields).err = "ok")
    => Len(out["write"].raw) = StructureBase_len(layout.fields).n

(***************************************************************************)
(* Fields that wrap fields.                                                *)
(***************************************************************************)
\* the bytes of the items of an array, one after the other
RECURSIVE Joined(_)
Joined(items) == IF items = <<>> THEN <<>> ELSE Head(items) \o Joined(Tail(items))

\* the ArrayField whose from_stream returned on the seekable stream
ArrayDecoded ==
  /\ fcall.op = "from_stream" /\ fcall.field.kind = "array"
  /\ fret[TRUE].status = "ok"

\* C13: an ArrayField with an until predicate stops decoding right after the
\* first element for which until is true: no element before the last one of
\* the result satisfies until, and when the last one does, the result is the
\* bytes from the start of the field to the end of that element, no byte
\* after it was read and the stream is positioned at its end.
C13_Until ==
  (ArrayDecoded /\ fcall.field.until = "zero") =>
    LET items == fret[TRUE].items
    IN  /\ \A j \in 1..(Len(items) - 1) : ~Until(fcall.field, items[j])
        /\ (Len(items) > 0 /\ Until(fcall.field, items[Len(items)])) =>
             /\ fret[TRUE].n = Len(Joined(items))
             /\ fret[TRUE].pos = fcall.start + fret[TRUE].n
             /\ fret[TRUE].hi <= fret[TRUE].pos
             /\ Joined(items) = Slice(fcall.data, fcall.start, fret[TRUE].pos)

\* until ended an array of two elements that has bytes left after it
C13_Witness ==
  /\ ArrayDecoded /\ fcall.field.until = "zero"
  /\ fcall.field.count = None /\ fcall.field.length = None
  /\ Len(fret[TRUE].items) = 2
  /\ Until(fcall.field, fret[TRUE].items[2])
  /\ fret[TRUE].pos < Len(fcall.data)

\* the ArrayField with a count that was called
Counted(op) ==
  /\ fcall.op = op /\ fcall.field.kind = "array"
  /\ fcall.field.count # None

StructureDecoded(sk) ==
  /\ fcall.op = "from_stream" /\ fcall.field.kind = "structure"
  /\ fcall.field.length # None
  /\ fret[sk].status = "ok"

\* C15: a StructureField with length=L decodes the inner structure through a
\* view of L bytes: no inner field reads a byte at or beyond start+L, the
\* field reports L bytes consumed and the outer stream is left at start+L,
\* also when the inner structure consumed fewer than L bytes.
C15_Bounded ==
  StructureDecoded(TRUE) =>
    /\ fret[TRUE].hi <= Max(fcall.start, fcall.start + fcall.field.length)
    /\ fret[TRUE].n = fcall.field.length
    /\ fret[TRUE].pos = fcall.start + fcall.field.length

\* the part of C15 that holds: no byte at or beyond start+L is read
C15_View ==
  \A sk \in BOOLEAN :
    (fcall.op = "from_stream" /\ fcall.field.kind = "structure"
       /\ fcall.field.length # None) =>
      /\ floop[sk].hi <= Max(fcall.start, fcall.start + fcall.field.length)
      /\ fret[sk].hi <= Max(fcall.start, fcall.start + fcall.field.length)

(***************************************************************************)
(* Fields called on their own.                                             *)
(***************************************************************************)
\* to_stream of the plain field of class fields has returned or raised
FieldEncoded(fields) ==
  /\ fcall.op = "to_stream" /\ fcall.field.kind = "plain"
  /\ fcall.field.base_field \in fields
  /\ fret[TRUE].status # "none"

\* nothing was written by the call
NothingWritten == fret[TRUE].raw = Zeros(fcall.start) /\ fret[TRUE].pos = fcall.start

\* C16: a FixedLengthField of literal length N without padding or
\* terminator, when strict, raises WriteError and writes nothing for a value
\* whose length is not N; when not strict, it writes the first N bytes of a
\* longer value and a shorter value as given, without error.
C16_FixedLength ==
  FieldEncoded(FixedLengthFields) =>
    LET f == fcall.field.base_field
        v == fcall.value.b
    IN  IF f.strict /\ Len(v) # f.length
        THEN fret[TRUE].status = "WriteError" /\ NothingWritten
        ELSE /\ fret[TRUE].status = "ok"
             /\ fret[TRUE].raw =
                  Zeros(fcall.start) \o (IF Len(v) > f.length THEN Take(v, f.length) ELSE v)
             /\ fret[TRUE].n = Min(Len(v), f.length)
             /\ fret[TRUE].pos = fcall.start + fret[TRUE].n

\* a strict field of two bytes refused a value of three bytes
C16_Witness ==
  /\ FieldEncoded(FixedLengthFields)
  /\ fcall.field.base_field = FL(2)
  /\ Len(fcall.value.b) = 3
  /\ fret[TRUE].status = "WriteError"

\* the value handed to the IntegerField does not fit its length and signedness
Unrepresentable ==
  ~Representable(fcall.value.i, fcall.field.base_field.length,
                 fcall.field.base_field.signed)

\* C17: IntegerField.to_stream of a value that its length and signedness
\* cannot represent raises WriteError and writes nothing.
C17_Overflow ==
  (FieldEncoded(IntegerFields) /\ Unrepresentable) =>
    fret[TRUE].status = "WriteError" /\ NothingWritten

\* C17, amended: such a value raises OverflowError, the exception of
\* int.to_bytes, and nothing is written; a value that fits is written in
\* length bytes.
C17_OverflowError ==
  FieldEncoded(IntegerFields) =>
    IF Unrepresentable
    THEN fret[TRUE].status = "OverflowError" /\ NothingWritten
    ELSE /\ fret[TRUE].status = "ok"
         /\ fret[TRUE].n = fcall.field.base_field.length
         /\ Len(fret[TRUE].raw) = fcall.start + fcall.field.base_field.length

\* an unsigned field of one byte was handed 256
C17_Witness ==
  /\ FieldEncoded(IntegerFields)
  /\ fcall.field.base_field = IntegerField(1)
  /\ fcall.value.i = 256
  /\ fret[TRUE].status = "OverflowError"

(***************************************************************************)
(* References between the fields of a structure.                           *)
(***************************************************************************)
\* field i takes its length from field j of the layout
Refers(i, j) ==
  /\ i \in 1..Len(layout.fields) /\ j \in 1..Len(layout.fields)
  /\ layout.fields[i].lengthName # ""
  /\ layout.fields[j].name = layout.fields[i].lengthName

\* field i refers to a later field that is not parsed ahead
ForwardRef(i) ==
  \E j \in 1..Len(layout.fields) :
    Refers(i, j) /\ j > i /\ ~preparsable(layout.fields[j])

\* every reference of the layout is to an earlier field
BackwardOnly == \A i, j \in 1..Len(layout.fields) : Refers(i, j) => j < i

\* C18: in the sequential decode of a structure, a length that refers to a
\* field declared later that is not preparsable raises
\* UnknownDependentFieldError as soon as the fields before it are decoded; a
\* reference to a field declared earlier never raises it and resolves to the
\* decoded value of that field: the referring field has as many bytes as the
\* earlier field's value says.
C18_References ==
  \A r \in {"first", "eager"} :
    /\ \A i \in 1..Len(layout.fields) :
         (ForwardRef(i) /\ out[r].status # "none") =>
           /\ out[r].status # "ok"
           /\ (\A k \in 1..(i - 1) :
                 layout.fields[k] = [FL(1) EXCEPT !.name = FieldName(k)]) =>
                out[r].status =
                  IF i = 1 \/ Len(input) - start >= i - 1
                  THEN "UnknownDependentFieldError"
                  ELSE "StreamExhaustedError"
    /\ (BackwardOnly /\ (\E i, j \in 1..Len(layout.fields) : Refers(i, j))) =>
         /\ out[r].status # "UnknownDependentFieldError"
         /\ out[r].deref # "UnknownDependentFieldError"
         /\ (out[r].status = "ok" /\ out[r].deref = "ok") =>
              \A i, j \in 1..Len(layout.fields) :
                (Refers(i, j) /\ layout.fields[i].strict) =>
                  Len(out[r].values[layout.fields[i].name].b)
                    = out[r].values[layout.fields[j].name].i

\* a length that refers to the next field stopped the decode of a stream
\* that holds both fields
C18_Witness ==
  /\ layout = StructureBase(<<LengthOf(BytesField, "f2"), IntegerField(1)>>, None)
  /\ Len(input) - start >= 2
  /\ out["first"].status = "UnknownDependentFieldError"

\* the wrapping field uses no offset, no skip and no negative length
InSequence(w) ==
  /\ w.kind \in {"array", "structure"}
  /\ w.length = None \/ w.length >= 0
  /\ w.kind = "array" =>
       /\ w.base_field.offset = None /\ w.base_field.skip = None
       /\ w.base_field.length >= 0
  /\ \A i \in 1..Len(w.structure) :
       /\ w.structure[i].offset = None /\ w.structure[i].skip = None
       /\ w.structure[i].length >= 0

\* the call has returned or raised on the seekable and on the other stream
BothReturned ==
  /\ fcall.op \in {"from_stream", "to_stream"}
  /\ floop[TRUE].phase = "done" /\ floop[FALSE].phase = "done"

\* C19: a field that uses no offset, skip, alignment, negative length or
\* lazy feature decodes from and encodes to a stream on which seek and tell
\* raise with the same values, bytes and counts as on a seekable stream,
\* ArrayField and StructureField included.
C19_Sequential ==
  (BothReturned /\ InSequence(fcall.field)) =>
    /\ fret[FALSE].status = fret[TRUE].status
    /\ fret[FALSE].items = fret[TRUE].items
    /\ fret[FALSE].n = fret[TRUE].n
    /\ fret[FALSE].raw = fret[TRUE].raw

\* len(field) has returned or raised
LenCalled == fcall.op = "len" /\ fret[TRUE].status # "none"

\* the length of the field is negative, a name or absent, or it wraps a field
\* of that kind
Unsized(w) ==
  IF w.kind = "plain"
  THEN w.base_field.kind = "bytes"
       /\ (w.base_field.lengthName # "" \/ w.base_field.length = None
           \/ w.base_field.length < 0)
  ELSE IF w.kind = "array"
  THEN IF w.count # None
       THEN w.base_field.lengthName # "" \/ w.base_field.length = None
            \/ w.base_field.length < 0
       ELSE w.length = None \/ w.length < 0
  ELSE w.length = None
       /\ \E i \in 1..Len(w.structure) : w.structure[i].length < 0

\* C20: len(field) returns a number that is not negative when the length of
\* the field is statically known and raises
\* ImpossibleToCalculateLengthError otherwise: it raises that error for a
\* length that is negative, a name or absent, ArrayField(length=-1) and the
\* wrappers of such fields included.
C20_Len ==
  LenCalled =>
    /\ fret[TRUE].status \in {"ok", "ImpossibleToCalculateLengthError"}
    /\ fret[TRUE].status = "ok" => fret[TRUE].n >= 0
    /\ Unsized(fcall.field) => fret[TRUE].status = "ImpossibleToCalculateLengthError"

(***************************************************************************)
(* Seeks and reads through a Substream.                                    *)
(***************************************************************************)
\* a seek was called on a Substream of bounded length over a seekable stream
BoundedSeek ==
  /\ slast.op = "seek" /\ sraw.seekable
  /\ subs[slast.who].length # None

\* the position the seek aims at: the position of SEEK_CUR is the one the
\* Substream takes from the raw cursor when the call starts
SeekTarget ==
  LET sub == subs[slast.who]
  IN  IF slast.a2 = SEEK_SET THEN slast.a1
      ELSE IF slast.a2 = SEEK_CUR
      THEN ClampedRawOffset(sub, slast.rawBefore) - sub.start + slast.a1
      ELSE sub.length + slast.a1

\* the seek set and returned the target clamped into [0, L] and moved the
\* raw stream there (slast.at is the raw cursor when the call returned)
SeekClamped ==
  LET sub == subs[slast.who]
  IN  /\ slast.err = "ok"
      /\ slast.n = Max(0, Min(sub.length, SeekTarget))
      /\ sub.position = slast.n
      /\ slast.at = sub.start + slast.n

\* C21: seek(offset, whence) on a seekable Substream of bounded length L sets
\* and returns the target position clamped into [0, L], for every integer
\* offset, negative ones included, and moves the raw stream to start + the
\* returned position.
C21_SeekClamped == BoundedSeek => SeekClamped

\* C21, amended: a negative offset with SEEK_SET raises ValueError and moves
\* nothing; every other seek is clamped as stated.
C21_SeekClampedOrRefused ==
  BoundedSeek =>
    IF slast.a2 = SEEK_SET /\ slast.a1 < 0
    THEN /\ slast.err = "ValueError"
         /\ subs[slast.who].position = slast.p
         /\ slast.at = slast.rawBefore
    ELSE SeekClamped

\* a seek from the end with a negative offset beyond the start was clamped to 0
C21_Witness ==
  /\ BoundedSeek /\ slast.err = "ok"
  /\ slast.a2 = SEEK_END /\ slast.a1 < 0
  /\ subs[slast.who].length + slast.a1 < 0
  /\ slast.n = 0


\* a read returned on a Substream of bounded length
BoundedRead ==
  /\ slast.op = "read" /\ slast.err = "ok"
  /\ subs[slast.who].length # None

\* the position the read started from: the raw cursor taken into the view on
\* a tellable raw stream, the position the Substream tracked itself otherwise
ReadPosition ==
  LET sub == subs[slast.who]
  IN  IF sub.tellable THEN ClampedRawOffset(sub, slast.rawBefore) - sub.start
      ELSE slast.p

\* no other user has taken bytes from a raw stream that cannot tell: its
\* cursor is where the Substream counted it to be
SoleReader == subs[slast.who].tellable \/ slast.rawBefore = slast.p

\* C22: a read(size) on a Substream of length L at position p returns at most
\* L - p bytes (as many as the raw stream has up to the bound when size < 0,
\* no more than size otherwise), none of them from raw offset start + L or
\* beyond, and advances the position by the number of bytes returned, on a
\* seekable raw stream and on one that cannot tell, where the position is
\* counted from 0 and seek raises OSError.
C22_ReadBounded ==
  LET sub == subs[slast.who]
      p == ReadPosition
      room == sub.length - p
      cap == IF slast.a1 < 0 THEN room ELSE Min(room, slast.a1)
  IN  /\ (slast.op = "seek" /\ ~sraw.seekable) => slast.err = "OSError"
      /\ (slast.op = "read" /\ ~sraw.seekable) => ~sub.tellable
      /\ BoundedRead =>
           /\ 0 <= p /\ slast.n <= room
           /\ slast.n = Len(slast.data)
           /\ slast.n = Min(cap, Max(0, Len(sraw.raw) - slast.at))
           /\ slast.data = Slice(sraw.raw, slast.at, slast.at + slast.n)
           /\ sub.position = p + slast.n
           /\ SoleReader => slast.at + slast.n <= sub.start + sub.length
           /\ sub.tellable => slast.at = sub.start + p

\* a read of everything that is left, on a raw stream that cannot tell, stopped
\* at the bound although the raw stream holds more
C22_Witness ==
  /\ BoundedRead /\ ~sraw.seekable /\ SoleReader
  /\ slast.a1 < 0 /\ slast.p > 0 /\ slast.n > 0
  /\ slast.n = subs[slast.who].length - slast.p
  /\ Len(sraw.raw) > slast.at + slast.n


(***************************************************************************)
(* The cache of a CaptureStream.                                           *)
(***************************************************************************)
\* the offset in the cache of the byte at raw offset o: the same offset, or
\* the offset counted from where the raw stream was wrapped when it cannot tell
InCache(o) == o - clast.base

\* C23: after any sequence of seek, read and write calls made through a
\* CaptureStream, with cache_read_last(n) called only right after an n-byte
\* read or write, the cache holds at every offset that was read or written
\* the byte last read or written there and its cursor is at the offset of the
\* raw cursor; such a cache_read_last(n) returns the n bytes of that read or
\* write, the first time and every time it is repeated.
C23_Capture ==
  (clast.op # "init" /\ clast.asked) =>
    /\ \A o \in CapOffsets :
         cseen[o] # None =>
           /\ 0 <= InCache(o) /\ InCache(o) < Len(cs.cache)
           /\ cs.cache[InCache(o) + 1] = cseen[o]
    /\ cs.cpos = InCache(cs.r.pos)
    /\ clast.op = "cache_read_last" =>
         /\ clast.data = clast.fresh
         /\ clast.n = clast.a1

\* cache_read_last(2) called a second time after a two-byte read that followed
\* a write and a seek
C23_Witness ==
  /\ clast.op = "cache_read_last" /\ clast.asked /\ clast.again = 2
  /\ clast.a1 = 2 /\ clast.data = clast.fresh
  /\ clast.data[1] \in 11..(10 + MaxRawLen)
  /\ \E o \in CapOffsets : cseen[o] = WriteByte
  /\ cs.r.pos > 2


(***************************************************************************)
(* The name of a field descriptor under with_name.                         *)
(***************************************************************************)
\* the name caller p asked for in the scope it is in
ScopeName(c) ==
  IF c.op = "with_name" THEN (IF c.arg = NameNone THEN c.old_name ELSE c.arg)
  ELSE IndexName(c.i)

\* C24: for a caller that has the descriptor to itself, the descriptor bears
\* the name handed to with_name inside the scope (its old name when that is
\* None) and its previous name again once the scope is left, whether the body
\* returned or raised; so when ArrayField.from_stream or to_stream has
\* returned or raised, base_field.name is what it was before the call.
C24_NameRestored ==
  \A p \in Callers :
    ~par[p].overlapped =>
      /\ par[p].pc \in {"inside", "leaving"} =>
           /\ shared.name = ScopeName(par[p])
           /\ par[p].old_name = par[p].before
      /\ par[p].pc = "loop" => shared.name = par[p].before
      /\ par[p].pc = "done" => (par[p].after = par[p].before /\ par[p].own)

\* from_stream with a count raised StreamExhaustedError at its second item
C24_Witness ==
  \E p \in Callers :
    /\ par[p].op = "from_stream" /\ par[p].pc = "done" /\ ~par[p].overlapped
    /\ par[p].status = "StreamExhaustedError" /\ par[p].i = 1
    /\ par[p].after = BaseName /\ shared.name = BaseName

\* two array calls ran at the same time and have both ended
Interleaved ==
  \A p \in Callers :
    /\ par[p].op \in {"from_stream", "to_stream"}
    /\ par[p].pc = "done" /\ par[p].overlapped

\* C30: when two array calls on the same base_field were interleaved and have
\* both ended, the descriptor has the name it had before either started, and
\* every item of each call was decoded or encoded with the descriptor bearing
\* that call's own index.
C30_Interleaved ==
  Interleaved => (shared.name = BaseName /\ \A p \in Callers : par[p].own)


\* an instance of a structure whose first field has an encoder and a decoder
\* was written and the bytes written were parsed
EncoderRoundTrip ==
  /\ pc = "done" /\ layout \in EncoderLayouts /\ Encoded
  /\ Returned("write")

\* C25: to_stream writes for a field the bytes of encoder(override(context, v))
\* and from_stream returns decoder(raw decoded value), so a top-level field
\* whose decoder undoes its encoder is read back as it was written.
C25_EncoderDecoder ==
  EncoderRoundTrip =>
    LET f == layout.fields[1]
        e == Field_encode_to_stream(NoEnv, f, BitStream_init(<<>>, 0),
                                    out["write"].values["f1"], EmptyContext)
        d == Field_decode_from_stream(NoEnv, f,
                                      BitStream_init(Drop(out["write"].raw, start), 0),
                                      EmptyContext)
    IN  /\ e.err = "ok"
        /\ Take(Drop(out["write"].raw, start), 1) = e.s.raw
        /\ Complete("second")
        /\ d.err = "ok" /\ out["second"].values["f1"] = d.value
        /\ out["second"].values["f1"] = inst["f1"]


\* to_stream has written its fields and is about to call stream.finalize()
Finalizing == pc = "end" /\ run = "write"

\* bit j of byte b, counted from the most significant one
BitOf(b, j) == (b \div Pow2(8 - j)) % 2

\* what finalize() does to the stream and what to_stream adds to its offset
Finalized ==
  LET k == Len(stream.bits)
  IN  /\ k <= 7
      /\ stream'.bits = <<>>
      /\ out'["write"].status = "ok"
      /\ IF k = 0
         THEN stream' = stream /\ offset' = offset
         ELSE /\ offset' = offset + 1
              /\ stream'.pos = stream.pos + 1
              /\ Len(stream'.raw) = Max(Len(stream.raw), stream.pos + 1)
              /\ \A o \in 1..Len(stream'.raw) :
                   o # stream.pos + 1 =>
                     stream'.raw[o] = IF o <= Len(stream.raw) THEN stream.raw[o] ELSE 0
              /\ \A j \in 1..8 :
                   BitOf(stream'.raw[stream.pos + 1], j) =
                     IF j <= k THEN stream.bits[j] ELSE 0

\* C26: finalize() with k pending bits, 1 <= k <= 7, writes one byte that
\* holds the pending bits, first written first, in its k high-order bits and
\* zeros below, empties the buffer and returns 1; with no pending bits it
\* writes nothing and returns 0.  When Structure.to_stream returns no bits
\* are pending.
C26_Finalize == [][Finalizing => Finalized]_vars

\* a structure of a 3-bit and a 2-bit field with the values 1 and 2 was
\* written as the byte 00110000
C26_Witness ==
  /\ out["first"].status = "none" /\ run = "second" /\ pc = "begin"
  /\ Returned("write") /\ layout \in BitLayouts
  /\ layout.fields[1].length = 3 /\ layout.fields[2].length = 2
  /\ ~layout.fields[2].realign
  /\ inst["f1"] = VI(1) /\ inst["f2"] = VI(2)
  /\ stream.bits = <<>> /\ out["write"].raw = Zeros(start) \o <<48>>
  /\ out["write"].n = 1


\* from_stream of an ArrayField has ended on the seekable stream
ArrayEnded ==
  /\ fcall.op = "from_stream" /\ fcall.field.kind = "array"
  /\ fret[TRUE].status # "none"

\* the array has a negative length: it takes items until the stream is exhausted
Unbounded(w) == w.count = None /\ w.length # None /\ w.length < 0

\* the bytes between the start of the field and the end of the stream
Available == Max(0, Len(fcall.data) - fcall.start)

\* C27: from_stream of an ArrayField with length < 0 ends at the first item
\* whose decode raises StreamExhaustedError: it returns the complete items
\* before it, with that item in neither the result nor the subcontext, the
\* stream at field_start + the bytes of the complete items, and that number
\* as the consumed count.  With a count or a length >= 0 the error is raised.
C27_Exhausted ==
  ArrayEnded =>
    LET w == fcall.field
        size == w.base_field.length
        items == fret[TRUE].items
    IN  /\ Unbounded(w) =>
             /\ fret[TRUE].status = "ok"
             /\ \A j \in 1..Len(items) : Len(items[j]) = size
             /\ fret[TRUE].n = size * Len(items)
             /\ Joined(items) = Slice(fcall.data, fcall.start, fcall.start + fret[TRUE].n)
             /\ fret[TRUE].pos = fcall.start + fret[TRUE].n
             /\ floop[TRUE].keys = 0..(Len(items) - 1)
             /\ (items = <<>> \/ ~Until(w, items[Len(items)])) =>
                  Available - fret[TRUE].n < size
        /\ (w.count # None /\ w.base_field.strict /\ w.until = "none") =>
             fret[TRUE].status =
               IF w.count * size > Available THEN "StreamExhaustedError" ELSE "ok"
        /\ (w.count = None /\ w.length # None /\ w.length >= 0 /\ w.until = "none") =>
             fret[TRUE].status =
               IF w.length > Available \/ w.length % size # 0
               THEN "StreamExhaustedError" ELSE "ok"

\* an array of two-byte items with length -1 on a stream of three bytes
\* returned one item and left the stream after it
C27_Witness ==
  /\ ArrayEnded /\ Unbounded(fcall.field) /\ fcall.field.until = "none"
  /\ fcall.field.base_field.length = 2
  /\ fcall.start = 0 /\ Len(fcall.data) = 3
  /\ fret[TRUE].status = "ok" /\ Len(fret[TRUE].items) = 1
  /\ fret[TRUE].n = 2 /\ fret[TRUE].pos = 2 /\ fret[TRUE].hi = 3

(***************************************************************************)
(* Lazy resolution.                                                        *)
(***************************************************************************)
\* the field called name decoded on its own at the offset its record holds
LazyReference(ctx, name) ==
  LET E == Env(FALSE, FALSE)
      Here(k) == Field_from_stream(E, get_field_by_name(E, name), k.s, ctx)
  IN  Here(BitStream_seek(stream, ctx[name].offset,
                          IF ctx[name].offset < 0 THEN SEEK_END ELSE SEEK_SET))

OpenParse == pc \in {"field", "end"} /\ run \in ParseRuns

\* field i was decoded or measured with the length that the lazy field j holds
DependsOnLazy(i, j) ==
  /\ RunFields[i].lengthName = RunFields[j].name
  /\ RunFields[j].lazy
  /\ \/ took[RunFields[i].name] = "decoded"
     \/ took[RunFields[i].name] = "lazy" /\ context[RunFields[i].name].length # None

\* the record of the lazy field j is eager and holds the decode at its offset,
\* and field i has the length that value gives
StoredEager(i, j) ==
  LET rec == context[RunFields[j].name]
  IN  /\ rec.has /\ ~rec.lazy
      /\ rec.value = LazyReference(context, RunFields[j].name).value
      /\ rec.length = LazyReference(context, RunFields[j].name).n
      /\ context[RunFields[i].name].length = rec.value.i

\* resolving the lazy record of name now: the cursor is back where it was,
\* the record is eager, and resolving once more gives the value and leaves
\* the stream and the context alone
ResolvesInPlace(name) ==
  LET E == Env(TRUE, FALSE)
      r == FieldContext_value(E, stream, context, name)
  IN  r.err = "ok" =>
        /\ r.s.pos = stream.pos /\ r.s.raw = stream.raw
        /\ r.value = LazyReference(context, name).value
        /\ r.ctx[name].has /\ ~r.ctx[name].lazy /\ r.ctx[name].value = r.value
        /\ FieldContext_value(E, r.s, r.ctx, name) = FR(r.s, r.ctx, r.value, 0, "ok")

ArrayReturned(sk) == floop[sk].phase = "done"

\* every decode of the element consumes at least one byte or raises
Consuming(w) == w.base_field.strict /\ w.base_field.length > 0

\* a turn of the loop of an array without a count that decoded an element,
\* raised nothing and left the cursor and the consumed total where they were
ZeroTurn(sk) ==
  /\ fcall.field.count = None
  /\ floop[sk].phase = "items" /\ floop'[sk] # floop[sk]
  /\ floop'[sk].err = "ok"
  /\ floop'[sk].total = floop[sk].total /\ floop'[sk].r = floop[sk].r
  /\ Len(floop'[sk].result) > Len(floop[sk].result)

\* C29: ArrayField.from_stream terminates on every finite input stream and
\* every element field, also when the decode of an element consumes zero
\* bytes: every call returns or raises in the end, and a turn that consumed
\* nothing, which the next turn can only repeat, is the last one.
C29_Terminates ==
  /\ [][\A sk \in BOOLEAN : ZeroTurn(sk) => ArrayReturned(sk)']_vars
  /\ <>(\A sk \in BOOLEAN : ArrayReturned(sk))

\* C29 for the strict elements of one byte or more and for the arrays with a
\* count
C29_TerminatesConsuming ==
  (Consuming(fcall.field) \/ fcall.field.count # None)
    ~> (\A sk \in BOOLEAN : ArrayReturned(sk))

====
